---- MODULE Spec2Model ----
(***************************************************************************)
(* Statistics engine of Chartify Pro (src/src/stats/calculator.rs):        *)
(* descriptive statistics, Welch's t-test, the per-data-type statistics    *)
(* and their parallel evaluation, with the derived queries on              *)
(* DataTypeStats.                                                          *)
(*                                                                         *)
(* f64 is modelled as a binary floating-point format with MantBits bits of *)
(* mantissa, an unbounded exponent, round-to-nearest-even after every      *)
(* operation, and NaN.  Signed zero is not modelled.  The infinities occur *)
(* only as cells of the tables the data processor reads, which compares    *)
(* and copies them: no operation of the model overflows or divides a       *)
(* non-zero value by zero.                                                 *)
(* Strings are sequences of character codes.                               *)
(***************************************************************************)
EXTENDS Integers, Sequences, FiniteSets, TLC

\* ------------------------------------------------------------------------
\* Bounds of the model
\* ------------------------------------------------------------------------
\* bits of mantissa of the modelled f64 (53 in the build)
MantBits == 7
\* largest number of rows of the table compute_data_type_stats is called on
MaxRows == 4
\* largest number of rows of the table compute_all_stats_parallel is called on
MaxTableRows == 3

\* ------------------------------------------------------------------------
\* f64
\* ------------------------------------------------------------------------
RECURSIVE Pow2(_)
Pow2(k) == IF k <= 0 THEN 1 ELSE 2 * Pow2(k - 1)

RECURSIVE BitLen(_)
BitLen(n) == IF n = 0 THEN 0 ELSE 1 + BitLen(n \div 2)

AbsInt(n) == IF n < 0 THEN -n ELSE n
SignInt(n) == IF n < 0 THEN -1 ELSE 1

\* a finite value m * 2^e, with m = 0 or 2^(MantBits-1) <= |m| < 2^MantBits
MkF(m, e) == [nan |-> FALSE, inf |-> 0, m |-> m, e |-> e]
NaN == [nan |-> TRUE, inf |-> 0, m |-> 0, e |-> 0]
\* f64::INFINITY (s = 1) and f64::NEG_INFINITY (s = -1)
Infinity(s) == [nan |-> FALSE, inf |-> s, m |-> 0, e |-> 0]
Zero == MkF(0, 0)
IsNaN(a) == a.nan
IsFinite(a) == ~a.nan /\ a.inf = 0

\* the f64 nearest to n * 2^e (ties to even)
Normalize(n, e) ==
    IF n = 0 THEN Zero
    ELSE LET a == AbsInt(n)
             s == SignInt(n)
             b == BitLen(a)
         IN IF b <= MantBits
            THEN MkF(s * a * Pow2(MantBits - b), e - (MantBits - b))
            ELSE LET k == b - MantBits
                     q == a \div Pow2(k)
                     r == a % Pow2(k)
                     half == Pow2(k - 1)
                     q2 == IF r > half \/ (r = half /\ q % 2 = 1) THEN q + 1 ELSE q
                 IN IF q2 = Pow2(MantBits)
                    THEN MkF(s * Pow2(MantBits - 1), e + k + 1)
                    ELSE MkF(s * q2, e + k)

FromInt(n) == Normalize(n, 0)

\* a < b on finite values
LtNum(a, b) ==
    IF a.m = 0 THEN b.m > 0
    ELSE IF b.m = 0 THEN a.m < 0
    ELSE IF (a.m < 0) # (b.m < 0) THEN a.m < 0
    ELSE IF a.m > 0 THEN a.e < b.e \/ (a.e = b.e /\ a.m < b.m)
    ELSE a.e > b.e \/ (a.e = b.e /\ a.m < b.m)

\* the comparisons of f64: false when an operand is NaN
FLt(a, b) == ~IsNaN(a) /\ ~IsNaN(b) /\ LtNum(a, b)
FGt(a, b) == FLt(b, a)
FLe(a, b) == ~IsNaN(a) /\ ~IsNaN(b) /\ ~LtNum(b, a)
FEq(a, b) == ~IsNaN(a) /\ ~IsNaN(b) /\ a = b

FNeg(a) == IF IsNaN(a) THEN NaN ELSE MkF(-a.m, a.e)
FAbs(a) == IF IsNaN(a) THEN NaN ELSE MkF(AbsInt(a.m), a.e)

FAdd(a, b) ==
    IF IsNaN(a) \/ IsNaN(b) THEN NaN
    ELSE IF a.m = 0 THEN b
    ELSE IF b.m = 0 THEN a
    ELSE LET hi == IF a.e >= b.e THEN a ELSE b
             lo == IF a.e >= b.e THEN b ELSE a
             d == hi.e - lo.e
         IN \* lo is below a quarter of the last place of hi
            IF d >= MantBits + 2 THEN hi
            ELSE Normalize(hi.m * Pow2(d) + lo.m, lo.e)

FSub(a, b) == FAdd(a, FNeg(b))

FMul(a, b) ==
    IF IsNaN(a) \/ IsNaN(b) THEN NaN
    ELSE Normalize(a.m * b.m, a.e + b.e)

\* a / b; x / 0 is NaN here (0/0 is, and a non-zero value is never divided
\* by zero in the model)
FDiv(a, b) ==
    IF IsNaN(a) \/ IsNaN(b) THEN NaN
    ELSE IF b.m = 0 THEN NaN
    ELSE IF a.m = 0 THEN Zero
    ELSE LET num == AbsInt(a.m) * Pow2(MantBits + 2)
             den == AbsInt(b.m)
             q == num \div den
             sticky == IF num % den = 0 THEN 0 ELSE 1
             s == SignInt(a.m) * SignInt(b.m)
         IN Normalize(s * (2 * q + sticky), a.e - b.e - (MantBits + 2) - 1)

RECURSIVE SqrtSearch(_, _, _)
SqrtSearch(n, lo, hi) ==
    IF lo >= hi THEN lo
    ELSE LET mid == (lo + hi + 1) \div 2
         IN IF mid * mid <= n THEN SqrtSearch(n, mid, hi) ELSE SqrtSearch(n, lo, mid - 1)

\* f64::sqrt
FSqrt(a) ==
    IF IsNaN(a) THEN NaN
    ELSE IF a.m < 0 THEN NaN
    ELSE IF a.m = 0 THEN Zero
    ELSE LET odd == a.e % 2
             n == a.m * Pow2(2 * MantBits + 2 + odd)
             e == a.e - (2 * MantBits + 2 + odd)
             \* n < 2^(3 * MantBits + 3), so its root is below the bound
             r == SqrtSearch(n, 0, Pow2((3 * MantBits + 4) \div 2))
             sticky == IF r * r = n THEN 0 ELSE 1
         IN Normalize(2 * r + sticky, (e \div 2) - 1)

\* f64::powi(2)
FSquare(a) == FMul(a, a)

\* f64::floor and f64::ceil of a finite value, as integers
FloorInt(a) == IF a.e >= 0 THEN a.m * Pow2(a.e) ELSE a.m \div Pow2(-a.e)
CeilInt(a) == -FloorInt(MkF(-a.m, a.e))

RECURSIVE FSum(_)
\* Iterator::sum::<f64>(): left to right from 0.0
FSum(s) == IF s = <<>> THEN Zero ELSE FAdd(FSum(SubSeq(s, 1, Len(s) - 1)), s[Len(s)])

\* ------------------------------------------------------------------------
\* Strings and Option
\* ------------------------------------------------------------------------
\* the character '"'
Quote == 34

RECURSIVE TrimStart(_)
TrimStart(s) == IF s # <<>> /\ Head(s) = Quote THEN TrimStart(Tail(s)) ELSE s

RECURSIVE TrimEnd(_)
TrimEnd(s) ==
    IF s # <<>> /\ s[Len(s)] = Quote THEN TrimEnd(SubSeq(s, 1, Len(s) - 1)) ELSE s

\* str::trim_matches('"')
TrimMatches(s) == TrimEnd(TrimStart(s))

\* AnyValue::to_string() of a string value: the text between double quotes
AnyValueToString(s) == <<Quote>> \o s \o <<Quote>>

\* v.to_string().trim_matches('"').to_string()
DisplayName(s) == TrimMatches(AnyValueToString(s))

RECURSIVE StrLt(_, _)
\* a < b for String: lexicographic on the bytes
StrLt(a, b) ==
    IF b = <<>> THEN FALSE
    ELSE IF a = <<>> THEN TRUE
    ELSE IF Head(a) # Head(b) THEN Head(a) < Head(b)
    ELSE StrLt(Tail(a), Tail(b))

None == [some |-> FALSE, v |-> NaN]
Some(x) == [some |-> TRUE, v |-> x]

\* ------------------------------------------------------------------------
\* Descriptive statistics
\* ------------------------------------------------------------------------
SIGNIFICANCE_THRESHOLD == FDiv(FromInt(5), FromInt(100))

\* GroupStatsDefault with 0.0 in place of f64::NAN
GroupStatsDefaultZeros ==
    [group_name |-> <<>>, count |-> 0, mean |-> Zero, median |-> Zero, std |-> Zero,
     variance |-> Zero, p95 |-> Zero, p05 |-> Zero,
     std_diff_from_control |-> None, p_value |-> None, is_significant |-> FALSE]

\* impl Default for GroupStats
GroupStatsDefault ==
    [group_name |-> <<>>, count |-> 0, mean |-> NaN, median |-> NaN, std |-> NaN,
     variance |-> NaN, p95 |-> NaN, p05 |-> NaN,
     std_diff_from_control |-> None, p_value |-> None, is_significant |-> FALSE]

RECURSIVE InsertSorted(_, _)
InsertSorted(s, x) ==
    IF s = <<>> THEN <<x>>
    ELSE IF LtNum(x, Head(s)) THEN <<x>> \o s
    ELSE <<Head(s)>> \o InsertSorted(Tail(s), x)

RECURSIVE SortValues(_)
\* sorted.sort_by(partial_cmp): a stable ascending sort (the values are not NaN)
SortValues(s) ==
    IF s = <<>> THEN <<>>
    ELSE InsertSorted(SortValues(SubSeq(s, 1, Len(s) - 1)), s[Len(s)])

\* PercentileAtRank taking the lower of the two closest ranks
PercentileAtRankLower(sorted_values, rank, lower, upper) == sorted_values[lower + 1]

\* the interpolation of percentile at a rank; sequences are 1-based here
PercentileAtRank(sorted_values, rank, lower, upper) ==
    IF lower = upper THEN sorted_values[lower + 1]
    ELSE FAdd(FMul(sorted_values[lower + 1],
                   FSub(FromInt(1), FSub(rank, FromInt(lower)))),
              FMul(sorted_values[upper + 1], FSub(rank, FromInt(lower))))

\* (rank.ceil() as usize).min(n - 1)
UpperIndex(rank, n) == IF CeilInt(rank) < n - 1 THEN CeilInt(rank) ELSE n - 1

PercentileOfRank(sorted_values, rank) ==
    PercentileAtRank(sorted_values, rank, FloorInt(rank),
                     UpperIndex(rank, Len(sorted_values)))

percentile(sorted_values, p) ==
    IF Len(sorted_values) = 0 THEN NaN
    ELSE IF Len(sorted_values) = 1 THEN sorted_values[1]
    ELSE PercentileOfRank(sorted_values,
                          FMul(FDiv(p, FromInt(100)), FromInt(Len(sorted_values) - 1)))

\* values.iter().map(|x| (x - mean).powi(2))
SquaredDeviations(values, mean) ==
    [i \in 1..Len(values) |-> FSquare(FSub(values[i], mean))]

\* values.iter().sum::<f64>() / n as f64
MeanOf(values) == FDiv(FSum(values), FromInt(Len(values)))

\* the sum of the squared deviations over n - 1
SampleVariance(values, mean) ==
    FDiv(FSum(SquaredDeviations(values, mean)), FromInt(Len(values) - 1))

\* MedianOf taking sorted[n / 2] for every n
MedianOfUpper(sorted, n) == sorted[n \div 2 + 1]

MedianOf(sorted, n) ==
    IF n % 2 = 0
    THEN FDiv(FAdd(sorted[n \div 2], sorted[n \div 2 + 1]), FromInt(2))
    ELSE sorted[n \div 2 + 1]

\* the GroupStats literal that compute_descriptive_stats returns
DescriptiveRecord(n, sorted, mean, variance) ==
    [group_name |-> <<>>, count |-> n, mean |-> mean, median |-> MedianOf(sorted, n),
     std |-> FSqrt(variance), variance |-> variance,
     p95 |-> percentile(sorted, FromInt(95)),
     p05 |-> percentile(sorted, FromInt(5)),
     std_diff_from_control |-> None, p_value |-> None, is_significant |-> FALSE]

DescriptiveOfMean(values, mean) ==
    DescriptiveRecord(Len(values), SortValues(values), mean,
                      IF Len(values) > 1 THEN SampleVariance(values, mean) ELSE Zero)

compute_descriptive_stats(values) ==
    IF Len(values) = 0 THEN GroupStatsDefault
    ELSE DescriptiveOfMean(values, MeanOf(values))

\* ------------------------------------------------------------------------
\* Welch's t-test
\* ------------------------------------------------------------------------
\* Quantiles of |t| (in hundredths) at the two-tailed levels 0.5, 0.2, 0.1,
\* 0.05 and 0.01, for the degrees of freedom in [0,2), [2,3), [3,5), [5,..)
TCritical(df) ==
    IF FLt(df, FromInt(2)) THEN <<100, 308, 631, 1271, 6366>>
    ELSE IF FLt(df, FromInt(3)) THEN <<82, 189, 292, 430, 993>>
    ELSE IF FLt(df, FromInt(5)) THEN <<77, 164, 235, 318, 584>>
    ELSE <<73, 148, 202, 257, 403>>

\* the number of tabulated quantiles c[1] < ... < c[5] that are <= x
QuantilesBelow(c, x) ==
    Cardinality({i \in 1..5 : FLe(FDiv(FromInt(c[i]), FromInt(100)), x)})

\* the distribution function at the tabulated quantiles (in thousandths)
CdfLevels == <<500, 750, 900, 950, 975, 995>>

\* StudentsT::new(0.0, 1.0, df).cdf(x) for x >= 0 (statrs), as a step function
\* of x: the value of the distribution function at the largest tabulated
\* quantile not above x
StudentsTCdf(df, x) ==
    IF IsNaN(x) THEN NaN
    ELSE FDiv(FromInt(CdfLevels[QuantilesBelow(TCritical(df), x) + 1]), FromInt(1000))

\* StudentsT::new(0.0, 1.0, df).is_ok()
StudentsTNewOk(df) == ~IsNaN(df) /\ FGt(df, Zero)

\* TTestResult with the threshold 1.0
TTestResultLoose(p_value) == <<p_value, FLe(p_value, FromInt(1))>>

\* (p_value, is_significant) of a p-value
TTestResult(p_value) == <<p_value, FLe(p_value, SIGNIFICANCE_THRESHOLD)>>

\* the two-tailed p-value from t and the degrees of freedom
TTestOfT(t, df) ==
    IF StudentsTNewOk(df)
    THEN TTestResult(FMul(FromInt(2), FSub(FromInt(1), StudentsTCdf(df, FAbs(t)))))
    ELSE <<NaN, FALSE>>

\* TTestOfSe without the early return on se == 0.0
TTestOfSeUnchecked(se, ss, diff, df_denom) ==
    TTestOfT(FDiv(diff, se), FDiv(FSquare(ss), df_denom))

\* from se on; ss = var1 / n1 + var2 / n2
TTestOfSe(se, ss, diff, df_denom) ==
    IF FEq(se, Zero) THEN <<FromInt(1), FALSE>>
    ELSE TTestOfT(FDiv(diff, se), FDiv(FSquare(ss), df_denom))

\* from the terms v1 = var1 / n1 and v2 = var2 / n2
TTestOfTerms(n1, n2, diff, v1, v2) ==
    TTestOfSe(FSqrt(FAdd(v1, v2)), FAdd(v1, v2), diff,
              FAdd(FDiv(FSquare(v1), FSub(n1, FromInt(1))),
                   FDiv(FSquare(v2), FSub(n2, FromInt(1)))))

\* from the means on
TTestOfMeans(group_values, control_values, n1, n2, mean1, mean2) ==
    TTestOfTerms(n1, n2, FSub(mean1, mean2),
                 FDiv(FDiv(FSum(SquaredDeviations(group_values, mean1)),
                           FSub(n1, FromInt(1))), n1),
                 FDiv(FDiv(FSum(SquaredDeviations(control_values, mean2)),
                           FSub(n2, FromInt(1))), n2))

\* TTestOfSizes returning (1.0, false) for a sample of fewer than 2 values
TTestOfSizesNoDifference(group_values, control_values, n1, n2) ==
    IF FLt(n1, FromInt(2)) \/ FLt(n2, FromInt(2)) THEN <<FromInt(1), FALSE>>
    ELSE TTestOfMeans(group_values, control_values, n1, n2,
                      FDiv(FSum(group_values), n1), FDiv(FSum(control_values), n2))

TTestOfSizes(group_values, control_values, n1, n2) ==
    IF FLt(n1, FromInt(2)) \/ FLt(n2, FromInt(2)) THEN <<NaN, FALSE>>
    ELSE TTestOfMeans(group_values, control_values, n1, n2,
                      FDiv(FSum(group_values), n1), FDiv(FSum(control_values), n2))

\* perform_ttest(group_values, control_values) = <<p_value, is_significant>>
perform_ttest(group_values, control_values) ==
    TTestOfSizes(group_values, control_values,
                 FromInt(Len(group_values)), FromInt(Len(control_values)))

\* ------------------------------------------------------------------------
\* Statistics of one data type
\* ------------------------------------------------------------------------
\* the "value" column of a table, as a sequence
ValuesOf(rows) == [i \in 1..Len(rows) |-> rows[i].value]

\* FilterDataType keeping every row
FilterNothing(df, data_type) == df

\* df.lazy().filter(col("data_type").eq(lit(data_type))).collect()
FilterDataType(df, data_type) ==
    LET Keep(row) == row.data_type = data_type
    IN SelectSeq(df, Keep)

get_values_for_group(df, group) ==
    LET Keep(row) == row.group = group
    IN ValuesOf(SelectSeq(df, Keep))

\* get_values_for_data_type_and_group filtering by the group alone
GetValuesOfAnyDataType(df, data_type, group) == get_values_for_group(df, group)

get_values_for_data_type_and_group(df, data_type, group) ==
    LET Keep(row) == row.data_type = data_type /\ row.group = group
    IN ValuesOf(SelectSeq(df, Keep))

\* the distinct values of the columns
UniqueGroups(df) == {df[i].group : i \in 1..Len(df)}
UniqueDataTypes(df) == {df[i].data_type : i \in 1..Len(df)}

\* Series::unique() yields the distinct values in an order that is not
\* specified: every sequence holding each value of S once
UniqueOrders(S) ==
    {s \in [1..Cardinality(S) -> S] : \A i, j \in 1..Cardinality(S) : i # j => s[i] # s[j]}

\* the Vec<String> collected from a unique() column
DisplayNames(unique) == [i \in 1..Len(unique) |-> DisplayName(unique[i])]

EmptyMap == [k \in {} |-> GroupStatsDefault]

\* HashMap::insert
MapInsert(map, key, value) ==
    [k \in DOMAIN map \cup {key} |-> IF k = key THEN value ELSE map[k]]

\* WithStdDiff with the guard control_std >= 0.0
WithStdDiffZeroStd(gs, control_std, control_mean) ==
    IF FLe(Zero, control_std) /\ ~IsNaN(control_mean)
    THEN [gs EXCEPT !.std_diff_from_control =
                        Some(FDiv(FSub(gs.mean, control_mean), control_std))]
    ELSE gs

\* the standardized mean difference of gs is set
WithStdDiff(gs, control_std, control_mean) ==
    IF FGt(control_std, Zero) /\ ~IsNaN(control_mean)
    THEN [gs EXCEPT !.std_diff_from_control =
                        Some(FDiv(FSub(gs.mean, control_mean), control_std))]
    ELSE gs

\* gs.p_value = Some(p_value); gs.is_significant = is_significant
WithPValue(gs, ttest) ==
    [gs EXCEPT !.p_value = Some(ttest[1]), !.is_significant = ttest[2]]

\* WithTTest without the test that the control group has values
WithTTestAlways(gs, values, control_values) ==
    WithPValue(gs, perform_ttest(values, control_values))

\* the t-test against the control values
WithTTest(gs, values, control_values) ==
    IF control_values # <<>>
    THEN WithPValue(gs, perform_ttest(values, control_values))
    ELSE gs

\* the body of the loop over the other groups, from the values of the group
OtherGroupStatsOf(values, group_name, control_values, control_stats) ==
    WithTTest(WithStdDiff([compute_descriptive_stats(values) EXCEPT !.group_name = group_name],
                          control_stats.std, control_stats.mean),
              values, control_values)

\* the body of the loop over the other groups: the GroupStats of group_name
OtherGroupStats(type_df, group_name, control_values, control_stats) ==
    OtherGroupStatsOf(get_values_for_group(type_df, group_name), group_name,
                      control_values, control_stats)

RECURSIVE OtherGroupsLoopBreak(_, _, _, _, _, _, _)
\* OtherGroupsLoop leaving the loop at the control group
OtherGroupsLoopBreak(group_stats, groups, k, type_df, control_group, control_values, control_stats) ==
    IF k > Len(groups) \/ groups[k] = control_group THEN group_stats
    ELSE OtherGroupsLoopBreak(
             MapInsert(group_stats, groups[k],
                       OtherGroupStats(type_df, groups[k], control_values, control_stats)),
             groups, k + 1, type_df, control_group, control_values, control_stats)

RECURSIVE OtherGroupsLoop(_, _, _, _, _, _, _)
\* for group_name in &groups { ... }, from the k-th group on
OtherGroupsLoop(group_stats, groups, k, type_df, control_group, control_values, control_stats) ==
    IF k > Len(groups) THEN group_stats
    ELSE OtherGroupsLoop(
             IF groups[k] = control_group
             THEN group_stats
             ELSE MapInsert(group_stats, groups[k],
                            OtherGroupStats(type_df, groups[k], control_values, control_stats)),
             groups, k + 1, type_df, control_group, control_values, control_stats)

\* StatsWithControl without the insertion of the control group's statistics
StatsWithoutControl(type_df, data_type, control_group, groups, control_values, control_stats) ==
    [data_type |-> data_type,
     control_group |-> control_group,
     group_stats |-> OtherGroupsLoop(EmptyMap, groups, 1, type_df, control_group,
                                     control_values, control_stats)]

\* the DataTypeStats, once the control group's statistics are known
StatsWithControl(type_df, data_type, control_group, groups, control_values, control_stats) ==
    [data_type |-> data_type,
     control_group |-> control_group,
     group_stats |-> OtherGroupsLoop(MapInsert(EmptyMap, control_group, control_stats),
                                     groups, 1, type_df, control_group,
                                     control_values, control_stats)]

\* the control group's statistics, named
ControlStats(control_values, control_group) ==
    [compute_descriptive_stats(control_values) EXCEPT !.group_name = control_group]

StatsOfControlValues(type_df, data_type, control_group, groups, control_values) ==
    StatsWithControl(type_df, data_type, control_group, groups, control_values,
                     ControlStats(control_values, control_group))

StatsOfTypeDf(type_df, data_type, control_group, groups) ==
    StatsOfControlValues(type_df, data_type, control_group, groups,
                         get_values_for_group(type_df, control_group))

\* compute_data_type_stats(df, data_type, control_group); unique is the order
\* in which unique() yields the groups of the data type
compute_data_type_stats(df, data_type, control_group, unique) ==
    StatsOfTypeDf(FilterDataType(df, data_type), data_type, control_group,
                  DisplayNames(unique))

\* ------------------------------------------------------------------------
\* Derived queries of DataTypeStats
\* ------------------------------------------------------------------------
RECURSIVE InsertSortedName(_, _)
InsertSortedName(s, x) ==
    IF s = <<>> THEN <<x>>
    ELSE IF StrLt(x, Head(s)) THEN <<x>> \o s
    ELSE <<Head(s)>> \o InsertSortedName(Tail(s), x)

RECURSIVE SortNames(_)
\* Vec<String>::sort()
SortNames(s) ==
    IF s = <<>> THEN <<>>
    ELSE InsertSortedName(SortNames(SubSeq(s, 1, Len(s) - 1)), s[Len(s)])

\* groups.iter().position(|g| g == x): the first index holding x, 0 if none
Position(s, x) ==
    IF \E i \in 1..Len(s) : s[i] = x
    THEN CHOOSE i \in 1..Len(s) : s[i] = x /\ \A j \in 1..(i - 1) : s[j] # x
    ELSE 0

\* Vec::remove(pos)
RemoveAt(s, pos) == SubSeq(s, 1, pos - 1) \o SubSeq(s, pos + 1, Len(s))

\* get_ordered_groups without the sort
GetOrderedGroupsUnsorted(self, keys) ==
    IF Position(keys, self.control_group) # 0
    THEN <<self.control_group>> \o RemoveAt(keys, Position(keys, self.control_group))
    ELSE keys

\* get_ordered_groups(&self); keys is the order in which the hash map yields
\* its keys
get_ordered_groups(self, keys) ==
    LET groups == SortNames(keys)
        pos == Position(groups, self.control_group)
    IN IF pos # 0
       THEN <<self.control_group>> \o RemoveAt(groups, pos)
       ELSE groups

\* has_significant_results counting the control group
HasSignificantAny(self) ==
    \E name \in DOMAIN self.group_stats : self.group_stats[name].is_significant

has_significant_results(self) ==
    \E name \in DOMAIN self.group_stats :
        name # self.control_group /\ self.group_stats[name].is_significant

\* ------------------------------------------------------------------------
\* Inputs
\* ------------------------------------------------------------------------
GroupA == <<65>>
GroupB == <<66>>
TypeX == <<88>>
TypeY == <<89>>
\* the data type named X" (an X followed by a double quote)
TypeXq == <<88, Quote>>

Groups == {GroupA, GroupB}
Values == {FromInt(0), FromInt(1), FromInt(43)}

Row(g, t, v) == [group |-> g, data_type |-> t, value |-> v]

\* the rows of the tables compute_data_type_stats is called on: every group
\* and value in data type X, and one row of data type Y
RowPool ==
    {Row(g, TypeX, v) : g \in Groups, v \in Values}
        \cup {Row(GroupA, TypeY, FromInt(1))}

\* the rows of the tables compute_all_stats_parallel is called on: three data
\* types, the name of one ending in a double quote
TableRowPool ==
    {Row(g, TypeX, v) : g \in Groups, v \in {FromInt(1), FromInt(43)}}
        \cup {Row(GroupA, TypeY, FromInt(1)), Row(GroupB, TypeXq, FromInt(1))}

TablesOf(pool, n) == UNION {[1..k -> pool] : k \in 0..n}

\* names of the inputs of the derived queries
QueryNames == {<<65>>, <<65, 66>>, <<66>>, <<67>>}

\* a DataTypeStats with the given keys, of which those in flagged are significant
QueryStats(control, keys, flagged) ==
    [data_type |-> TypeX,
     control_group |-> control,
     group_stats |-> [k \in keys |->
                         [GroupStatsDefault EXCEPT !.group_name = k,
                                                   !.is_significant = k \in flagged]]]

NoStats == [data_type |-> <<>>, control_group |-> <<>>, group_stats |-> EmptyMap]

\* ------------------------------------------------------------------------
\* Data processor (src/src/data/processor.rs)
\* ------------------------------------------------------------------------
\* a cell of a string column: null, or a string
NullCell == [null |-> TRUE, s |-> <<>>]
StrCell(s) == [null |-> FALSE, s |-> s]

\* the names of the value columns V and W of the loaded table, and of a
\* column U the table does not have
ColV == <<86>>
ColW == <<87>>
ColU == <<85>>

\* a row of the loaded table: the cells of the group column, of the data
\* type column and of the value columns (Option<f64> after the cast)
RawRow(g, t, v, w) == [group |-> g, data_type |-> t, cols |-> (ColV :> v) @@ (ColW :> w)]

\* df.column(name).is_ok() for a value column
HasColumn(name) == name \in {ColV, ColW}

\* the condition under which the Single branch of prepare_data pushes a row
KeepSingle(row) ==
    /\ row.cols[ColV].some
    /\ ~IsNaN(row.cols[ColV].v)
    /\ ~row.group.null
    /\ ~row.data_type.null

\* the condition under which stack_to_long pushes a row of column data_col
KeepStacked(row, data_col) ==
    /\ row.cols[data_col].some
    /\ ~IsNaN(row.cols[data_col].v)
    /\ ~row.group.null

RECURSIVE PushSingle(_, _)
\* the loop of the Single branch over the rows 1..k
PushSingle(raw, k) ==
    IF k = 0 THEN <<>>
    ELSE IF KeepSingle(raw[k])
    THEN Append(PushSingle(raw, k - 1),
                Row(DisplayName(raw[k].group.s), DisplayName(raw[k].data_type.s),
                    raw[k].cols[ColV].v))
    ELSE PushSingle(raw, k - 1)

RECURSIVE PushColumn(_, _, _)
\* the inner loop of stack_to_long over the rows 1..k of one column
PushColumn(raw, data_col, k) ==
    IF k = 0 THEN <<>>
    ELSE IF KeepStacked(raw[k], data_col)
    THEN Append(PushColumn(raw, data_col, k - 1),
                Row(DisplayName(raw[k].group.s), data_col, raw[k].cols[data_col].v))
    ELSE PushColumn(raw, data_col, k - 1)

RECURSIVE StackColumns(_, _)
\* the outer loop of stack_to_long: a column the table lacks is skipped
StackColumns(raw, data_cols) ==
    IF data_cols = <<>> THEN <<>>
    ELSE (IF HasColumn(Head(data_cols))
          THEN PushColumn(raw, Head(data_cols), Len(raw)) ELSE <<>>)
             \o StackColumns(raw, Tail(data_cols))

\* Result<DataFrame, ProcessorError>
OkTable(rows) == [ok |-> TRUE, rows |-> rows]
ErrTable == [ok |-> FALSE, rows |-> <<>>]

stack_to_long(raw, data_cols) == OkTable(StackColumns(raw, data_cols))

\* prepare_data with group_col, data_type_col and value_col given; data_cols
\* is an Option<&[String]>
prepare_data(raw, mode, data_cols) ==
    IF mode = "Single" THEN OkTable(PushSingle(raw, Len(raw)))
    ELSE IF ~data_cols.some THEN ErrTable
    ELSE IF data_cols.v = <<>> THEN ErrTable
    ELSE stack_to_long(raw, data_cols.v)

\* ------------------------------------------------------------------------
\* Box-plot statistics (src/src/charts/plotter.rs, src/src/charts/renderer.rs)
\* ------------------------------------------------------------------------
\* the quartile indexes n / 4, n / 2 and 3 * n / 4 (from 0)
Q1Index(n) == n \div 4

\* Q2Index taking the lower middle element
Q2IndexLower(n) == (n - 1) \div 2

Q2Index(n) == n \div 2

Q3Index(n) == (3 * n) \div 4

\* sorted.get(idx).copied().unwrap_or(0.0)
GetOrZero(sorted, idx) == IF idx < Len(sorted) THEN sorted[idx + 1] ELSE Zero

\* q1 - 1.5 * iqr and q3 + 1.5 * iqr
LowFence(q1, iqr) == FSub(q1, FMul(FDiv(FromInt(3), FromInt(2)), iqr))
HighFence(q3, iqr) == FAdd(q3, FMul(FDiv(FromInt(3), FromInt(2)), iqr))

RECURSIVE FindFirstAtLeast(_, _, _)
\* sorted.iter().find(|v| v >= fence), from index k on; None when there is none
FindFirstAtLeast(sorted, fence, k) ==
    IF k > Len(sorted) THEN None
    ELSE IF FLe(fence, sorted[k]) THEN Some(sorted[k])
    ELSE FindFirstAtLeast(sorted, fence, k + 1)

RECURSIVE FindLastAtMost(_, _, _)
\* sorted.iter().rev().find(|v| v <= fence), from index k down
FindLastAtMost(sorted, fence, k) ==
    IF k < 1 THEN None
    ELSE IF FLe(sorted[k], fence) THEN Some(sorted[k])
    ELSE FindLastAtMost(sorted, fence, k - 1)

UnwrapOr(opt, default) == IF opt.some THEN opt.v ELSE default

\* WhiskerLow taking the smallest sample
WhiskerLowMin(sorted, q1, iqr) == sorted[1]

WhiskerLow(sorted, q1, iqr) ==
    UnwrapOr(FindFirstAtLeast(sorted, LowFence(q1, iqr), 1), q1)

WhiskerHigh(sorted, q3, iqr) ==
    UnwrapOr(FindLastAtMost(sorted, HighFence(q3, iqr), Len(sorted)), q3)

\* the five values of the box of a group
BoxSpread(sorted, q1, median, q3) ==
    [drawn |-> TRUE, q1 |-> q1, median |-> median, q3 |-> q3,
     whisker_low |-> WhiskerLow(sorted, q1, FSub(q3, q1)),
     whisker_high |-> WhiskerHigh(sorted, q3, FSub(q3, q1))]

\* a group without values is skipped
NoBox ==
    [drawn |-> FALSE, q1 |-> NaN, median |-> NaN, q3 |-> NaN,
     whisker_low |-> NaN, whisker_high |-> NaN]

\* the statistics of ChartPlotter::draw_boxplot_chart from the sorted values
PlotterBoxOfSorted(sorted) ==
    BoxSpread(sorted, GetOrZero(sorted, Q1Index(Len(sorted))),
              GetOrZero(sorted, Q2Index(Len(sorted))),
              GetOrZero(sorted, Q3Index(Len(sorted))))

\* the statistics of StaticChartRenderer::draw_boxplot from the sorted values
RendererBoxOfSorted(sorted) ==
    BoxSpread(sorted, sorted[Q1Index(Len(sorted)) + 1], sorted[Q2Index(Len(sorted)) + 1],
              sorted[Q3Index(Len(sorted)) + 1])

\* the box ChartPlotter::draw_boxplot_chart draws for the values of a group
draw_boxplot_chart(values) ==
    IF values = <<>> THEN NoBox ELSE PlotterBoxOfSorted(SortValues(values))

\* the box StaticChartRenderer::draw_boxplot draws for the values of a group
draw_boxplot(vals) ==
    IF vals = <<>> THEN NoBox ELSE RendererBoxOfSorted(SortValues(vals))

\* ------------------------------------------------------------------------
\* Beeswarm positions (src/src/charts/plotter.rs)
\* ------------------------------------------------------------------------
\* f64::round of a finite value, as an integer: half away from zero
RoundInt(a) ==
    IF a.e >= 0 THEN a.m * Pow2(a.e)
    ELSE SignInt(a.m) * ((2 * AbsInt(a.m) + Pow2(-a.e)) \div Pow2(1 - a.e))

\* let precision = 1e6
Precision == FromInt(1000000)

\* (y * precision).round() as i64
KeyOf(y) == RoundInt(FMul(y, Precision))

\* the keys of value_indices
KeysOf(y_values) == {KeyOf(y_values[i]) : i \in 1..Len(y_values)}

\* value_indices[key]: the indexes (from 1) of the values of a key, in input order
IndicesOf(y_values, key) ==
    LET HasKey(i) == KeyOf(y_values[i]) = key
    IN SelectSeq([i \in 1..Len(y_values) |-> i], HasKey)

\* ClusterPosition spreading to the right of center
ClusterPositionFromCenter(center, width, count, i) ==
    FAdd(center,
         FMul(FromInt(i), FDiv(width, FromInt((IF count > 2 THEN count ELSE 2) - 1))))

\* start + i as f64 * step, for the i-th index (from 0) of a cluster of count
ClusterPosition(center, width, count, i) ==
    FAdd(FSub(center, FDiv(width, FromInt(2))),
         FMul(FromInt(i), FDiv(width, FromInt((IF count > 2 THEN count ELSE 2) - 1))))

RECURSIVE WriteCluster(_, _, _, _, _)
\* for (i, &idx) in indices.iter().enumerate() { positions[idx] = ... }
WriteCluster(positions, indices, i, center, width) ==
    IF i > Len(indices) THEN positions
    ELSE WriteCluster([positions EXCEPT ![indices[i]] =
                           ClusterPosition(center, width, Len(indices), i - 1)],
                      indices, i + 1, center, width)

\* the body of the loop over value_indices.values()
SpreadCluster(positions, indices, center, width) ==
    IF Len(indices) > 1 THEN WriteCluster(positions, indices, 1, center, width)
    ELSE positions

RECURSIVE SpreadLoopFirst(_, _, _, _, _, _)
\* SpreadLoop leaving the loop after the first cluster
SpreadLoopFirst(positions, order, k, y_values, center, width) ==
    IF k > Len(order) \/ k > 1 THEN positions
    ELSE SpreadLoopFirst(SpreadCluster(positions, IndicesOf(y_values, order[k]), center, width),
                         order, k + 1, y_values, center, width)

RECURSIVE SpreadLoop(_, _, _, _, _, _)
\* for indices in value_indices.values() { ... }, the HashMap yielding the
\* clusters in the order of their keys in order
SpreadLoop(positions, order, k, y_values, center, width) ==
    IF k > Len(order) THEN positions
    ELSE SpreadLoop(SpreadCluster(positions, IndicesOf(y_values, order[k]), center, width),
                    order, k + 1, y_values, center, width)

\* beeswarm_positions(y_values, center, width); order is the order in which
\* the HashMap yields its keys
beeswarm_positions(y_values, center, width, order) ==
    IF Len(y_values) = 0 THEN <<>>
    ELSE SpreadLoop([i \in 1..Len(y_values) |-> center], order, 1, y_values, center, width)

\* ------------------------------------------------------------------------
\* Normal scores and quantile plots (plotter.rs, renderer.rs)
\* ------------------------------------------------------------------------
\* 2 * atanh(z) in units of 2^-12, for z in units of 2^-12, by its series
LnSeries(z, z2) ==
    2 * (z + (z * z2) \div (3 * 4096)
           + (((z * z2) \div 4096) * z2) \div (5 * 4096)
           + (((((z * z2) \div 4096) * z2) \div 4096) * z2) \div (7 * 4096))

\* ln of the mantissa m in [2^(MantBits-1), 2^MantBits), read as m / 2^(MantBits-1)
LnMantissa(z) == LnSeries(z, (z * z) \div 4096)

\* f64::ln: NaN below 0, and ln(m * 2^e) = (e + MantBits - 1) * ln 2 + ln(m / 2^(MantBits-1))
FLn(a) ==
    IF IsNaN(a) \/ a.m < 0 THEN NaN
    ELSE IF a.m = 0 THEN Infinity(-1)
    ELSE Normalize((a.e + MantBits - 1) * 2839
                       + LnMantissa(((a.m - Pow2(MantBits - 1)) * 4096)
                                        \div (a.m + Pow2(MantBits - 1))),
                   -12)

\* a decimal literal n / 10^k of the source
Dec(n, k) == FDiv(FromInt(n), FromInt(10 ^ k))

\* the coefficients of Acklam's approximation
CoefA ==
    <<Dec(-3969683, 5), Dec(2209461, 4), Dec(-2759285, 4), Dec(1383578, 4),
           Dec(-3066480, 5), Dec(2506628, 6)>>

CoefB == <<Dec(-5447610, 5), Dec(1615858, 4), Dec(-1556990, 4), Dec(6680131, 5),
           Dec(-1328068, 5)>>

CoefC == <<Dec(-7784894, 9), Dec(-3223965, 7), Dec(-2400758, 6), Dec(-2549733, 6),
           Dec(4374664, 6), Dec(2938164, 6)>>

CoefD == <<Dec(7784696, 9), Dec(3224671, 7), Dec(2445134, 6), Dec(3754409, 6)>>

RECURSIVE Horner(_, _, _)
\* (((c[0] * x + c[1]) * x + ...) * x + c[k-1]), sequences being 1-based here
Horner(c, x, k) ==
    IF k = 1 THEN c[1] ELSE FAdd(FMul(Horner(c, x, k - 1), x), c[k])

\* the ratio of the two tails, at q = sqrt(-2 ln p)
TailRatio(q) ==
    FDiv(Horner(CoefC, q, 6), FAdd(FMul(Horner(CoefD, q, 4), q), FromInt(1)))

\* the ratio of the central region, at q = p - 0.5 and r = q * q
CentralRatio(q, r) ==
    FDiv(FMul(Horner(CoefA, r, 6), q), FAdd(FMul(Horner(CoefB, r, 5), r), FromInt(1)))

\* let p_low = 0.02425
PLow == Dec(2425, 5)

\* (-2.0 * x.ln()).sqrt()
TailArgument(x) == FSqrt(FMul(FromInt(-2), FLn(x)))

\* what a call of normal_ppf did: the branch taken, the argument of the
\* logarithm it evaluated if any, and the value returned
PpfResult(branch, ln_arg, value) == [branch |-> branch, ln_arg |-> ln_arg, value |-> value]

\* PpfRegions with the lower tail taken up to and including p_low
PpfRegionsClosed(p, p_high) ==
    IF FLe(p, PLow)
    THEN PpfResult("lower", Some(p), TailRatio(TailArgument(p)))
    ELSE IF FLe(p, p_high)
    THEN PpfResult("central", None,
                   CentralRatio(FSub(p, Dec(5, 1)), FSquare(FSub(p, Dec(5, 1)))))
    ELSE PpfResult("upper", Some(FSub(FromInt(1), p)),
                   FNeg(TailRatio(TailArgument(FSub(FromInt(1), p)))))

\* the three branches after the sentinels, with p_high the upper limit of
\* the central region
PpfRegions(p, p_high) ==
    IF FLt(p, PLow)
    THEN PpfResult("lower", Some(p), TailRatio(TailArgument(p)))
    ELSE IF FLe(p, p_high)
    THEN PpfResult("central", None,
                   CentralRatio(FSub(p, Dec(5, 1)), FSquare(FSub(p, Dec(5, 1)))))
    ELSE PpfResult("upper", Some(FSub(FromInt(1), p)),
                   FNeg(TailRatio(TailArgument(FSub(FromInt(1), p)))))

\* ChartPlotter::normal_ppf
PlotterNormalPpf(p) ==
    IF FLe(p, Zero) THEN PpfResult("negative sentinel", None, Infinity(-1))
    ELSE IF FLe(FromInt(1), p) THEN PpfResult("positive sentinel", None, Infinity(1))
    ELSE PpfRegions(p, FSub(FromInt(1), PLow))

\* StaticChartRenderer::normal_ppf
RendererNormalPpf(p) ==
    IF FLe(p, Zero) THEN PpfResult("negative sentinel", None, FNeg(Dec(35, 1)))
    ELSE IF FLe(FromInt(1), p) THEN PpfResult("positive sentinel", None, Dec(35, 1))
    ELSE PpfRegions(p, FSub(FromInt(1), PLow))

\* a point of a quantile plot: plotting position, x and y
QqPoint(p, x, y) == [p |-> p, x |-> x, y |-> y]

\* PlotterQuantile without the case of a single value
PlotterQuantileUnguarded(i, n) == FDiv(FromInt(i), FromInt(n - 1))

\* the quantile of the i-th (from 0) of n sorted values in draw_qq_chart
PlotterQuantile(i, n) ==
    IF n > 1 THEN FDiv(FromInt(i), FromInt(n - 1)) ELSE Dec(5, 1)

\* the points ChartPlotter::draw_qq_chart draws for the values of a group:
\* [quantile, val]
PlotterQqOfSorted(sorted) ==
    [k \in 1..Len(sorted) |->
        QqPoint(PlotterQuantile(k - 1, Len(sorted)),
                PlotterQuantile(k - 1, Len(sorted)), sorted[k])]

draw_qq_chart(values) ==
    IF values = <<>> THEN <<>> ELSE PlotterQqOfSorted(SortValues(values))

\* (i as f64 + 0.5) / n as f64
RendererQuantile(i, n) == FDiv(FAdd(FromInt(i), Dec(5, 1)), FromInt(n))

\* the points StaticChartRenderer::draw_qq_plot draws for the values of a
\* group, before map_x and map_y turn them into pixels
RendererQqOfSorted(sorted) ==
    [k \in 1..Len(sorted) |->
        QqPoint(RendererQuantile(k - 1, Len(sorted)),
                RendererNormalPpf(RendererQuantile(k - 1, Len(sorted))).value, sorted[k])]

draw_qq_plot(vals) ==
    IF vals = <<>> THEN <<>> ELSE RendererQqOfSorted(SortValues(vals))

\* ------------------------------------------------------------------------
\* Chart viewer (src/src/gui/chart_viewer.rs)
\* ------------------------------------------------------------------------
\* ChartViewer::default
ChartViewerDefault == [chart_data |-> EmptyMap, data_type_order |-> <<>>]

\* ChartViewer::clear
clear(self) == [self EXCEPT !.chart_data = EmptyMap, !.data_type_order = <<>>]

\* the keys of iter whose statistics have significant results
Mismatch(chart_data, iter) ==
    LET Significant(data_type) == has_significant_results(chart_data[data_type].stats)
    IN SelectSeq(iter, Significant)

\* the keys of iter whose statistics have none
MatchItems(chart_data, iter) ==
    LET Insignificant(data_type) == ~has_significant_results(chart_data[data_type].stats)
    IN SelectSeq(iter, Insignificant)

\* OrderOf with the data types without significant results first
OrderOfMatchFirst(mismatch, match_items) == SortNames(match_items) \o SortNames(mismatch)

\* mismatch.sort(); match_items.sort(); mismatch extended by match_items
OrderOf(mismatch, match_items) == SortNames(mismatch) \o SortNames(match_items)

\* ChartViewer::set_chart_data; iter is the order in which the hash map
\* yields its keys
set_chart_data(self, chart_data, iter) ==
    [self EXCEPT !.data_type_order = OrderOf(Mismatch(chart_data, iter),
                                             MatchItems(chart_data, iter)),
                 !.chart_data = chart_data]

\* ------------------------------------------------------------------------
\* The chart data of run_calculation (src/src/gui/app.rs)
\* ------------------------------------------------------------------------
\* .into_iter().filter(|v| !v.is_nan()).collect()
DropNaN(values) ==
    LET Keep(v) == ~IsNaN(v)
    IN SelectSeq(values, Keep)

RECURSIVE DataByGroupFrom(_, _, _, _, _)
\* for group in stat.get_ordered_groups() { ... }, from the k-th group on
DataByGroupFrom(data_by_group, groups, k, processed_df, data_type) ==
    IF k > Len(groups) THEN data_by_group
    ELSE DataByGroupFrom(
             MapInsert(data_by_group, groups[k],
                       DropNaN(get_values_for_data_type_and_group(processed_df, data_type,
                                                                  groups[k]))),
             groups, k + 1, processed_df, data_type)

\* the ChartData the closure of run_calculation builds for a data type;
\* keys is the order in which the hash map of the group statistics yields
\* its keys
ChartDataOf(processed_df, data_type, stat, keys) ==
    [data_type |-> data_type,
     data_by_group |-> DataByGroupFrom(EmptyMap, get_ordered_groups(stat, keys), 1,
                                       processed_df, data_type),
     stats |-> stat]

\* ------------------------------------------------------------------------
\* PPT generator (src/src/ppt.rs)
\* ------------------------------------------------------------------------
EMU_PER_INCH == 914400

SLIDE_WIDTH == 9144000

SLIDE_HEIGHT == 6858000

\* let margin = EMU_PER_INCH / 2; let gap = EMU_PER_INCH / 4
Margin == EMU_PER_INCH \div 2

Gap == EMU_PER_INCH \div 4

\* (content_width - gap) / 2 and (content_height - gap) / 2
ImgWidth == ((SLIDE_WIDTH - 2 * Margin) - Gap) \div 2

ImgHeight == ((SLIDE_HEIGHT - 2 * Margin) - Gap) \div 2

\* the offsets of the four cells of the grid
GridPositions ==
    <<<<Margin, Margin>>,
      <<Margin + ImgWidth + Gap, Margin>>,
      <<Margin, Margin + ImgHeight + Gap>>,
      <<Margin + ImgWidth + Gap, Margin + ImgHeight + Gap>>>>

\* image_data.chunks(4).len()
ChunkCount(n) == (n + 3) \div 4

\* the length of the chunk of slide slide_idx (from 0)
ChunkLen(n, slide_idx) == IF n - 4 * slide_idx < 4 THEN n - 4 * slide_idx ELSE 4

\* ImageIds numbering the images from 0
ImageIdsFromZero(img_start, img_end) == [i \in 1..(img_end - img_start) |-> img_start + i - 1]

\* (img_start..img_end).map(|i| i + 1).collect()
ImageIds(img_start, img_end) == [i \in 1..(img_end - img_start) |-> img_start + i]

\* a part of the archive
Part(dir, num, content) == [dir |-> dir, num |-> num, content |-> content]

\* a relationship of a slide
Relationship(id, type, target) == [id |-> id, type |-> type, target |-> target]

\* slide_rels_xml: rId1 is the layout, rId(idx + 2) the image of index idx
slide_rels_xml(image_ids) ==
    <<Relationship(1, "slideLayout", 1)>>
        \o [k \in 1..Len(image_ids) |-> Relationship((k - 1) + 2, "image", image_ids[k])]

\* the smaller of two lengths, for zip
MinLen(a, b) == IF Len(a) < Len(b) THEN Len(a) ELSE Len(b)

\* slide_xml: one picture per pair of positions.iter().zip(image_ids.iter())
slide_xml(slide_num, image_ids, positions) ==
    [k \in 1..MinLen(positions, image_ids) |->
        [shape_id |-> (k - 1) + 2, r_id |-> (k - 1) + 2,
         x |-> positions[k][1], y |-> positions[k][2],
         cx |-> positions[k][3], cy |-> positions[k][4]]]

\* (0..chunk.len()).map(|i| (positions[i].0, positions[i].1, img_width, img_height))
SlidePositions(chunk_len) ==
    [k \in 1..chunk_len |-> <<GridPositions[k][1], GridPositions[k][2], ImgWidth, ImgHeight>>]

\* the two parts written for the slide slide_idx (from 0)
SlideParts(slide_idx, image_ids, chunk_len) ==
    <<Part("ppt/slides/_rels", slide_idx + 1, slide_rels_xml(image_ids)),
      Part("ppt/slides", slide_idx + 1,
           slide_xml(slide_idx + 1, image_ids, SlidePositions(chunk_len)))>>

RECURSIVE SlidesFrom(_, _, _)
\* for (slide_idx, chunk) in slides.iter().enumerate() { ... } from slide_idx
\* on, global_img_idx being the images of the slides before
SlidesFrom(n, slide_idx, global_img_idx) ==
    IF slide_idx >= ChunkCount(n) THEN <<>>
    ELSE SlideParts(slide_idx,
                    ImageIds(global_img_idx, global_img_idx + ChunkLen(n, slide_idx)),
                    ChunkLen(n, slide_idx))
             \o SlidesFrom(n, slide_idx + 1, global_img_idx + ChunkLen(n, slide_idx))

\* the parts written before the slides and between the slides and the images
HeadParts(slide_count) ==
    <<Part("[Content_Types].xml", 0, slide_count), Part("_rels/.rels", 0, 0),
      Part("ppt/_rels/presentation.xml.rels", 0, slide_count),
      Part("ppt/presentation.xml", 0, slide_count)>>

FixedParts(slide_count) ==
    <<Part("ppt/slideLayouts", 1, 0), Part("ppt/slideLayouts/_rels", 1, 0),
      Part("ppt/slideMasters", 1, 0), Part("ppt/slideMasters/_rels", 1, 0),
      Part("ppt/theme", 1, 0), Part("docProps/core.xml", 0, 0),
      Part("docProps/app.xml", 0, slide_count)>>

\* for (idx, img_bytes) in image_data.iter().enumerate()
MediaParts(image_data) ==
    [k \in 1..Len(image_data) |-> Part("ppt/media", (k - 1) + 1, image_data[k])]

\* the parts generate_ppt_from_bytes writes when no write fails
ArchiveOf(image_data) ==
    HeadParts(ChunkCount(Len(image_data)))
        \o SlidesFrom(Len(image_data), 0, 0)
        \o FixedParts(ChunkCount(Len(image_data)))
        \o MediaParts(image_data)

\* generate_ppt_from_bytes: Ok(()) with the archive written, or the error of
\* the first write that fails, after written parts
generate_ppt_from_bytes(image_data, written) ==
    IF written = Len(ArchiveOf(image_data))
    THEN [ok |-> TRUE, archive |-> ArchiveOf(image_data)]
    ELSE [ok |-> FALSE, archive |-> SubSeq(ArchiveOf(image_data), 1, written)]

\* ------------------------------------------------------------------------
\* State
\* ------------------------------------------------------------------------
VARIABLES
    df,             \* the sample table
    control_group,  \* the control group chosen by the caller
    pc,             \* "idle", "computed", "running", "returned" or "panicked"
    s_stats,        \* the DataTypeStats returned by compute_data_type_stats
    data_types,     \* the Vec<String> of data types the tasks are made from
    task,           \* per element of data_types: "pending", "done", "panicked"
    out,            \* per element of data_types: the pair the task yields
    stats,          \* the HashMap<String, DataTypeStats> returned
    prev,           \* the map returned by the previous computation
    q_self,         \* the DataTypeStats a derived query is called on
    q_calls,        \* the queries called so far
    q_ordered,      \* result of get_ordered_groups
    q_significant,  \* result of has_significant_results
    fn_args,        \* the arguments a function is called with
    fn_ret,         \* the calls made so far: function name and value returned
    app,            \* the fields of ChartifyApp, its loader, panel and viewer
    load_threads,   \* the CSV loading threads spawned so far, with their channels
    calc_threads,   \* the calculation threads spawned so far, with their channels
    at              \* the handler update() runs next

vars == <<df, control_group, pc, s_stats, data_types, task, out, stats, prev,
          q_self, q_calls, q_ordered, q_significant, fn_args, fn_ret,
          app, load_threads, calc_threads, at>>

par_vars == <<data_types, task, out, stats, prev>>
query_vars == <<q_self, q_calls, q_ordered, q_significant>>
fn_vars == <<fn_args, fn_ret>>
gui_vars == <<app, load_threads, calc_threads, at>>

NoResult == [some |-> FALSE, map |-> EmptyMap]

ParIdle ==
    /\ data_types = <<>>
    /\ task = <<>>
    /\ out = <<>>
    /\ stats = EmptyMap
    /\ prev = NoResult

QueryIdle ==
    /\ q_self = NoStats
    /\ q_calls = {}
    /\ q_ordered = <<>>
    /\ q_significant = FALSE

FnIdle ==
    /\ fn_args = <<>>
    /\ fn_ret = <<>>

\* ChartifyApp::new, with DataLoader::new, ControlPanel::default and
\* ChartViewer::default; df, rx and chart_data are 0 for None and empty
ChartifyAppNew ==
    [loader_df |-> 0, csv_path |-> 0, columns |-> <<>>, groups |-> <<>>,
     group_col |-> "", control_group |-> <<>>, calculate_enabled |-> FALSE,
     progress |-> 0, status |-> "Ready", chart_data |-> 0,
     calc_rx |-> 0, is_calculating |-> FALSE, load_rx |-> 0, is_loading |-> FALSE]

GuiIdle ==
    /\ app = ChartifyAppNew
    /\ load_threads = <<>>
    /\ calc_threads = <<>>
    /\ at = "check_load_results"

\* ------------------------------------------------------------------------
\* compute_data_type_stats, called on its own
\* ------------------------------------------------------------------------
CallComputeDataTypeStats ==
    /\ pc = "idle"
    /\ \E data_type \in {TypeX, TypeY} :
           \E unique \in UniqueOrders(UniqueGroups(FilterDataType(df, data_type))) :
               s_stats' = compute_data_type_stats(df, data_type, control_group, unique)
    /\ pc' = "computed"
    /\ UNCHANGED <<df, control_group, par_vars, query_vars, fn_vars, gui_vars>>

InitStats ==
    /\ df \in TablesOf(RowPool, MaxRows)
    /\ control_group \in Groups
    /\ pc = "idle"
    /\ GuiIdle
    /\ s_stats = NoStats
    /\ ParIdle
    /\ QueryIdle
    /\ FnIdle

NextStats == CallComputeDataTypeStats

SpecStats == InitStats /\ [][NextStats]_vars

\* ------------------------------------------------------------------------
\* compute_all_stats_parallel
\* ------------------------------------------------------------------------
\* the unique data types are collected and one task per element is made
StartCompute ==
    /\ pc = "idle"
    /\ \E unique \in UniqueOrders(UniqueDataTypes(df)) :
           /\ data_types' = DisplayNames(unique)
           /\ task' = [i \in 1..Len(unique) |-> "pending"]
           /\ out' = [i \in 1..Len(unique) |-> <<<<>>, NoStats>>]
    /\ pc' = "running"
    /\ UNCHANGED <<df, control_group, s_stats, stats, prev, query_vars, fn_vars, gui_vars>>

\* the closure of the parallel map, run for the i-th data type
RunTask(i) ==
    /\ pc = "running"
    /\ task[i] = "pending"
    /\ \E unique \in UniqueOrders(UniqueGroups(FilterDataType(df, data_types[i]))) :
           out' = [out EXCEPT ![i] =
                      <<data_types[i],
                        compute_data_type_stats(df, data_types[i], control_group, unique)>>]
    /\ task' = [task EXCEPT ![i] = "done"]
    /\ UNCHANGED <<df, control_group, pc, s_stats, data_types, stats, prev, query_vars, fn_vars, gui_vars>>

RECURSIVE CollectMap(_, _)
\* collect() into the HashMap: the pairs are inserted in the order of the
\* items, a later pair replacing an earlier one with the same key
CollectMap(pairs, k) ==
    IF k = 0 THEN EmptyMap
    ELSE MapInsert(CollectMap(pairs, k - 1), pairs[k][1], pairs[k][2])

\* every task has finished: the map is built and returned
Collect ==
    /\ pc = "running"
    /\ \A i \in 1..Len(task) : task[i] = "done"
    /\ stats' = CollectMap(out, Len(out))
    /\ pc' = "returned"
    /\ UNCHANGED <<df, control_group, s_stats, data_types, task, out, prev, query_vars, fn_vars, gui_vars>>

\* the caller computes the statistics of the same table again
Recalculate ==
    /\ pc = "returned"
    /\ prev' = [some |-> TRUE, map |-> stats]
    /\ pc' = "idle"
    /\ data_types' = <<>>
    /\ task' = <<>>
    /\ out' = <<>>
    /\ stats' = EmptyMap
    /\ UNCHANGED <<df, control_group, s_stats, query_vars, fn_vars, gui_vars>>

\* a task panics (a failed allocation, a panic in a library)
TaskPanic(i) ==
    /\ pc = "running"
    /\ task[i] = "pending"
    /\ task' = [task EXCEPT ![i] = "panicked"]
    /\ UNCHANGED <<df, control_group, pc, s_stats, data_types, out, stats, prev, query_vars, fn_vars, gui_vars>>

\* rayon waits for the other tasks and resumes the panic in the caller:
\* collect() does not return and the pairs of the finished tasks are dropped
Unwind ==
    /\ pc = "running"
    /\ \A i \in 1..Len(task) : task[i] # "pending"
    /\ \E i \in 1..Len(task) : task[i] = "panicked"
    /\ pc' = "panicked"
    /\ UNCHANGED <<df, control_group, s_stats, data_types, task, out, stats, prev, query_vars, fn_vars, gui_vars>>

Init ==
    /\ df \in TablesOf(TableRowPool, MaxTableRows)
    /\ control_group \in Groups
    /\ pc = "idle"
    /\ GuiIdle
    /\ s_stats = NoStats
    /\ ParIdle
    /\ QueryIdle
    /\ FnIdle

Next ==
    \/ StartCompute
    \/ \E i \in 1..Len(task) : RunTask(i)
    \/ Collect
    \/ Recalculate

Spec == Init /\ [][Next]_vars

NextFault ==
    \/ StartCompute
    \/ \E i \in 1..Len(task) : RunTask(i)
    \/ Collect
    \/ Recalculate
    \/ \E i \in 1..Len(task) : TaskPanic(i)
    \/ Unwind

SpecFault == Init /\ [][NextFault]_vars

\* ------------------------------------------------------------------------
\* Calls of the derived queries
\* ------------------------------------------------------------------------
CallGetOrderedGroups ==
    /\ "get_ordered_groups" \notin q_calls
    /\ \E keys \in UniqueOrders(DOMAIN q_self.group_stats) :
           q_ordered' = get_ordered_groups(q_self, keys)
    /\ q_calls' = q_calls \cup {"get_ordered_groups"}
    /\ UNCHANGED <<df, control_group, pc, s_stats, par_vars, q_self, q_significant, fn_vars, gui_vars>>

CallHasSignificantResults ==
    /\ "has_significant_results" \notin q_calls
    /\ q_significant' = has_significant_results(q_self)
    /\ q_calls' = q_calls \cup {"has_significant_results"}
    /\ UNCHANGED <<df, control_group, pc, s_stats, par_vars, q_self, q_ordered, fn_vars, gui_vars>>

InitQuery ==
    /\ df = <<>>
    /\ control_group = GroupA
    /\ pc = "idle"
    /\ GuiIdle
    /\ s_stats = NoStats
    /\ ParIdle
    /\ \E control \in QueryNames, keys \in SUBSET QueryNames :
           \E flagged \in SUBSET keys : q_self = QueryStats(control, keys, flagged)
    /\ q_calls = {}
    /\ q_ordered = <<>>
    /\ q_significant = FALSE
    /\ FnIdle

NextQuery ==
    \/ CallGetOrderedGroups
    \/ CallHasSignificantResults

SpecQuery == InitQuery /\ [][NextQuery]_vars
\* ------------------------------------------------------------------------
\* prepare_data and stack_to_long
\* ------------------------------------------------------------------------
\* largest number of rows of the loaded table
MaxRawRows == 2

\* rows of the loaded table: a plain row, infinite values, null and empty
\* names, NaN and null values
RawRowPool ==
    {RawRow(StrCell(GroupA), StrCell(TypeX), Some(FromInt(1)), Some(FromInt(1))),
     RawRow(StrCell(GroupA), StrCell(TypeX), Some(Infinity(1)), None),
     RawRow(StrCell(GroupB), StrCell(TypeX), Some(Infinity(-1)), Some(FromInt(1))),
     RawRow(NullCell, StrCell(TypeX), Some(FromInt(1)), Some(FromInt(1))),
     RawRow(StrCell(GroupA), NullCell, Some(FromInt(1)), None),
     RawRow(StrCell(<<>>), StrCell(TypeX), Some(FromInt(1)), Some(FromInt(1))),
     RawRow(StrCell(GroupB), StrCell(<<>>), Some(FromInt(43)), Some(NaN)),
     RawRow(StrCell(GroupB), StrCell(TypeY), Some(NaN), Some(FromInt(43))),
     RawRow(StrCell(GroupB), StrCell(TypeX), None, Some(FromInt(1)))}

\* the data_cols argument: absent, empty, one column, two columns, and a
\* column the table lacks
DataColsPool ==
    {[some |-> FALSE, v |-> <<>>], [some |-> TRUE, v |-> <<>>],
     [some |-> TRUE, v |-> <<ColV>>], [some |-> TRUE, v |-> <<ColV, ColW>>],
     [some |-> TRUE, v |-> <<ColU, ColW>>]}

PrepareArgs ==
    {[raw |-> raw, mode |-> "Single", data_cols |-> [some |-> FALSE, v |-> <<>>]] :
        raw \in TablesOf(RawRowPool, MaxRawRows)}
      \cup {[raw |-> raw, mode |-> "Multi", data_cols |-> dc] :
              raw \in TablesOf(RawRowPool, MaxRawRows), dc \in DataColsPool}

\* a call of a function and the value it returned
Called(fn, ret) == [fn |-> fn, ret |-> ret]

CallPrepareData ==
    /\ fn_ret = <<>>
    /\ fn_ret' = <<Called("prepare_data",
                          prepare_data(fn_args.raw, fn_args.mode, fn_args.data_cols))>>
    /\ UNCHANGED <<df, control_group, pc, s_stats, par_vars, query_vars, fn_args, gui_vars>>

InitPrepare ==
    /\ df = <<>>
    /\ control_group = GroupA
    /\ pc = "idle"
    /\ GuiIdle
    /\ s_stats = NoStats
    /\ ParIdle
    /\ QueryIdle
    /\ fn_args \in PrepareArgs
    /\ fn_ret = <<>>

NextPrepare == CallPrepareData

SpecPrepare == InitPrepare /\ [][NextPrepare]_vars

\* ------------------------------------------------------------------------
\* perform_ttest, called on its own and from compute_data_type_stats
\* ------------------------------------------------------------------------
\* largest number of values of the sample of the tested group
MaxSample == 3

GroupC == <<67>>

SampleValues == {FromInt(0), FromInt(3), FromInt(43), NaN}

\* the samples of the control group
ControlSamples ==
    {<<>>, <<FromInt(3)>>, <<FromInt(3), FromInt(3), FromInt(3)>>,
     <<FromInt(0), FromInt(0)>>, <<FromInt(0), FromInt(3)>>,
     <<FromInt(43), FromInt(43), FromInt(43)>>, <<FromInt(0), FromInt(43), FromInt(3)>>,
     <<NaN, FromInt(3)>>}

TTestArgs ==
    [group_values : TablesOf(SampleValues, MaxSample), control_values : ControlSamples]

AllFinite(values) == \A i \in 1..Len(values) : IsFinite(values[i])

\* the rows of one group in data type X
RowsOfSample(group, values) == [i \in 1..Len(values) |-> Row(group, TypeX, values[i])]

\* the table with the tested sample as group B, the control sample as group
\* A and a third group C; no table is made of samples that hold a NaN, which
\* the data processor drops
TableOfSamples(args) ==
    IF AllFinite(args.group_values) /\ AllFinite(args.control_values)
    THEN RowsOfSample(GroupB, args.group_values)
             \o RowsOfSample(GroupA, args.control_values)
             \o RowsOfSample(GroupC, <<FromInt(0), FromInt(3)>>)
    ELSE <<>>

CallPerformTTest ==
    /\ fn_ret = <<>>
    /\ fn_ret' = <<Called("perform_ttest",
                          perform_ttest(fn_args.group_values, fn_args.control_values))>>
    /\ UNCHANGED <<df, control_group, pc, s_stats, par_vars, query_vars, fn_args, gui_vars>>

InitTTest ==
    /\ fn_args \in TTestArgs
    /\ df = TableOfSamples(fn_args)
    /\ control_group = GroupA
    /\ pc = "idle"
    /\ GuiIdle
    /\ s_stats = NoStats
    /\ ParIdle
    /\ QueryIdle
    /\ fn_ret = <<>>

NextTTest ==
    \/ CallPerformTTest
    \/ CallComputeDataTypeStats

SpecTTest == InitTTest /\ [][NextTTest]_vars

\* ------------------------------------------------------------------------
\* percentile, called on its own
\* ------------------------------------------------------------------------
\* largest number of values of the sorted sample
MaxSorted == 4

SortedValues == {FromInt(1), FromInt(2), FromInt(3), FromInt(4)}

\* the caller passes the values sorted ascending
IsSorted(s) == \A i \in 1..Len(s) : \A j \in i..Len(s) : ~LtNum(s[j], s[i])

Percents == {FromInt(0), FromInt(5), FromInt(50), FromInt(95), FromInt(100)}

PercentileArgs ==
    {[sorted_values |-> sv, p |-> p] :
        sv \in {t \in TablesOf(SortedValues, MaxSorted) : IsSorted(t)}, p \in Percents}

CallPercentile ==
    /\ fn_ret = <<>>
    /\ fn_ret' = <<Called("percentile", percentile(fn_args.sorted_values, fn_args.p))>>
    /\ UNCHANGED <<df, control_group, pc, s_stats, par_vars, query_vars, fn_args, gui_vars>>

InitPercentile ==
    /\ fn_args \in PercentileArgs
    /\ df = <<>>
    /\ control_group = GroupA
    /\ pc = "idle"
    /\ GuiIdle
    /\ s_stats = NoStats
    /\ ParIdle
    /\ QueryIdle
    /\ fn_ret = <<>>

NextPercentile == CallPercentile

SpecPercentile == InitPercentile /\ [][NextPercentile]_vars

\* ------------------------------------------------------------------------
\* compute_descriptive_stats, called on its own
\* ------------------------------------------------------------------------
\* largest number of values of the input of compute_descriptive_stats
MaxValues == 4

DescriptiveValues == {FromInt(0), FromInt(1), FromInt(5), FromInt(43)}

Reverse(s) == [i \in 1..Len(s) |-> s[Len(s) + 1 - i]]
Rotate(s) == IF s = <<>> THEN s ELSE Tail(s) \o <<Head(s)>>
SwapFirst(s) == IF Len(s) < 2 THEN s ELSE <<s[2], s[1]>> \o SubSeq(s, 3, Len(s))

\* the first call is on the values, the second on the reordered values
CallComputeDescriptiveStats ==
    /\ Len(fn_ret) < 2
    /\ fn_ret' = Append(fn_ret,
                        Called("compute_descriptive_stats",
                               compute_descriptive_stats(
                                   IF fn_ret = <<>> THEN fn_args.values
                                   ELSE fn_args.reordered)))
    /\ UNCHANGED <<df, control_group, pc, s_stats, par_vars, query_vars, fn_args, gui_vars>>

InitDescriptive ==
    /\ \E v \in TablesOf(DescriptiveValues, MaxValues) :
           \E r \in {Reverse(v), Rotate(v), SwapFirst(v)} :
               fn_args = [values |-> v, reordered |-> r]
    /\ df = <<>>
    /\ control_group = GroupA
    /\ pc = "idle"
    /\ GuiIdle
    /\ s_stats = NoStats
    /\ ParIdle
    /\ QueryIdle
    /\ fn_ret = <<>>

NextDescriptive == CallComputeDescriptiveStats

SpecDescriptive == InitDescriptive /\ [][NextDescriptive]_vars

\* ------------------------------------------------------------------------
\* The box-plot statistics of a group, in both renderers
\* ------------------------------------------------------------------------
\* largest number of values of a group drawn as a box
MaxBox == 5

BoxValues == {FromInt(0), FromInt(1), FromInt(41), FromInt(43)}

\* the values 1..8 of the group of eight
OneToEight == [i \in 1..8 |-> FromInt(i)]

BoxArgs ==
    {[values |-> v] : v \in TablesOf(BoxValues, MaxBox) \cup {OneToEight, Reverse(OneToEight)}}

WasCalled(fn) == \E k \in 1..Len(fn_ret) : fn_ret[k].fn = fn

DrawBoxplotChart ==
    /\ ~WasCalled("draw_boxplot_chart")
    /\ fn_ret' = Append(fn_ret, Called("draw_boxplot_chart", draw_boxplot_chart(fn_args.values)))
    /\ UNCHANGED <<df, control_group, pc, s_stats, par_vars, query_vars, fn_args, gui_vars>>

DrawBoxplot ==
    /\ ~WasCalled("draw_boxplot")
    /\ fn_ret' = Append(fn_ret, Called("draw_boxplot", draw_boxplot(fn_args.values)))
    /\ UNCHANGED <<df, control_group, pc, s_stats, par_vars, query_vars, fn_args, gui_vars>>

InitBox ==
    /\ fn_args \in BoxArgs
    /\ df = <<>>
    /\ control_group = GroupA
    /\ pc = "idle"
    /\ GuiIdle
    /\ s_stats = NoStats
    /\ ParIdle
    /\ QueryIdle
    /\ fn_ret = <<>>

NextBox ==
    \/ DrawBoxplotChart
    \/ DrawBoxplot

SpecBox == InitBox /\ [][NextBox]_vars

\* ------------------------------------------------------------------------
\* beeswarm_positions, called twice on the same arguments
\* ------------------------------------------------------------------------
\* largest number of points of a group
MaxPoints == 4

\* 0 and 2^-30 share the key 0
PointValues == {FromInt(0), MkF(Pow2(MantBits - 1), -30 - (MantBits - 1)), FromInt(5)}

\* the x of the first and of the fourth group
Centers == {FromInt(0), FromInt(3)}

\* 0.6, and the 0.35 of draw_boxplot_chart
Widths == {FDiv(FromInt(6), FromInt(10)), FDiv(FromInt(35), FromInt(100))}

BeeswarmArgs == [y_values : TablesOf(PointValues, MaxPoints), center : Centers, width : Widths]

CallBeeswarmPositions ==
    /\ Len(fn_ret) < 2
    /\ \E order \in UniqueOrders(KeysOf(fn_args.y_values)) :
           fn_ret' = Append(fn_ret,
                            Called("beeswarm_positions",
                                   beeswarm_positions(fn_args.y_values, fn_args.center,
                                                      fn_args.width, order)))
    /\ UNCHANGED <<df, control_group, pc, s_stats, par_vars, query_vars, fn_args, gui_vars>>

InitBeeswarm ==
    /\ fn_args \in BeeswarmArgs
    /\ df = <<>>
    /\ control_group = GroupA
    /\ pc = "idle"
    /\ GuiIdle
    /\ s_stats = NoStats
    /\ ParIdle
    /\ QueryIdle
    /\ fn_ret = <<>>

NextBeeswarm == CallBeeswarmPositions

SpecBeeswarm == InitBeeswarm /\ [][NextBeeswarm]_vars

\* ------------------------------------------------------------------------
\* The layouts of one group: box, beeswarm and quantile plot
\* ------------------------------------------------------------------------
\* largest number of values of a group
MaxLayout == 3

LayoutValues == {FromInt(0), FromInt(5)}

\* the values of the group and its index i in the chart
LayoutArgs == [values : TablesOf(LayoutValues, MaxLayout), center : {FromInt(0), FromInt(1)}]

\* beeswarm_positions(&values, i as f64, 0.35) in draw_boxplot_chart
CallBeeswarmOfGroup ==
    /\ ~WasCalled("beeswarm_positions")
    /\ \E order \in UniqueOrders(KeysOf(fn_args.values)) :
           fn_ret' = Append(fn_ret,
                            Called("beeswarm_positions",
                                   beeswarm_positions(fn_args.values, fn_args.center,
                                                      Dec(35, 2), order)))
    /\ UNCHANGED <<df, control_group, pc, s_stats, par_vars, query_vars, fn_args, gui_vars>>

DrawQqChart ==
    /\ ~WasCalled("draw_qq_chart")
    /\ fn_ret' = Append(fn_ret, Called("draw_qq_chart", draw_qq_chart(fn_args.values)))
    /\ UNCHANGED <<df, control_group, pc, s_stats, par_vars, query_vars, fn_args, gui_vars>>

DrawQqPlot ==
    /\ ~WasCalled("draw_qq_plot")
    /\ fn_ret' = Append(fn_ret, Called("draw_qq_plot", draw_qq_plot(fn_args.values)))
    /\ UNCHANGED <<df, control_group, pc, s_stats, par_vars, query_vars, fn_args, gui_vars>>

InitLayout ==
    /\ fn_args \in LayoutArgs
    /\ df = <<>>
    /\ control_group = GroupA
    /\ pc = "idle"
    /\ GuiIdle
    /\ s_stats = NoStats
    /\ ParIdle
    /\ QueryIdle
    /\ fn_ret = <<>>

NextLayout ==
    \/ DrawBoxplotChart
    \/ DrawBoxplot
    \/ CallBeeswarmOfGroup
    \/ DrawQqChart
    \/ DrawQqPlot

SpecLayout == InitLayout /\ [][NextLayout]_vars

\* ------------------------------------------------------------------------
\* normal_ppf of the plotter and of the renderer on the same p
\* ------------------------------------------------------------------------
\* p = k / 40 for k in -2..42, p_low and the limit of the central region,
\* their neighbours, and NaN
PpfInputs ==
    {Dec(25 * k, 3) : k \in -2..42}
        \cup {PLow, FSub(FromInt(1), PLow), NaN}
        \cup {Normalize(PLow.m - 1, PLow.e), Normalize(PLow.m + 1, PLow.e)}
        \cup {Dec(5, 3), Dec(995, 3)}

CallPlotterNormalPpf ==
    /\ ~WasCalled("ChartPlotter::normal_ppf")
    /\ fn_ret' = Append(fn_ret, Called("ChartPlotter::normal_ppf", PlotterNormalPpf(fn_args.p)))
    /\ UNCHANGED <<df, control_group, pc, s_stats, par_vars, query_vars, fn_args, gui_vars>>

CallRendererNormalPpf ==
    /\ ~WasCalled("StaticChartRenderer::normal_ppf")
    /\ fn_ret' = Append(fn_ret,
                        Called("StaticChartRenderer::normal_ppf", RendererNormalPpf(fn_args.p)))
    /\ UNCHANGED <<df, control_group, pc, s_stats, par_vars, query_vars, fn_args, gui_vars>>

InitPpf ==
    /\ fn_args \in [p : PpfInputs]
    /\ df = <<>>
    /\ control_group = GroupA
    /\ pc = "idle"
    /\ GuiIdle
    /\ s_stats = NoStats
    /\ ParIdle
    /\ QueryIdle
    /\ fn_ret = <<>>

NextPpf ==
    \/ CallPlotterNormalPpf
    \/ CallRendererNormalPpf

SpecPpf == InitPpf /\ [][NextPpf]_vars

\* ------------------------------------------------------------------------
\* The application: update(), its handlers and the background threads
\* (src/src/gui/app.rs, control_panel.rs, data/loader.rs)
\* ------------------------------------------------------------------------
\* largest number of threads of a kind spawned in a run
MaxThreads == 2

\* the CSV files the dialog can return; a DataFrame is named by its file
Paths == {1, 2}

\* the columns of a file
CsvColumns(path) == IF path = 1 THEN <<"g1", "g2">> ELSE <<"g1">>

\* the distinct values of a column of a DataFrame (none for df = 0, no
\* DataFrame, and for a column the DataFrame does not have)
CsvUnique(df_id, column) ==
    IF df_id = 1 /\ column = "g1" THEN {GroupA, GroupB}
    ELSE IF df_id = 1 /\ column = "g2" THEN {GroupC}
    ELSE IF df_id = 2 /\ column = "g1" THEN {GroupB, GroupC}
    ELSE {}

\* ControlPanel::set_progress
set_progress(a, progress, status) == [a EXCEPT !.progress = progress, !.status = status]

\* ControlPanel::update_columns
update_columns(a, columns) ==
    [a EXCEPT !.columns = columns, !.calculate_enabled = (columns # <<>>)]

\* ControlPanel::update_groups
update_groups(a, groups) ==
    IF groups # <<>> /\ a.control_group = <<>>
    THEN [a EXCEPT !.groups = groups, !.control_group = groups[1]]
    ELSE [a EXCEPT !.groups = groups]

\* handle_group_column_changed; unique is the order in which unique() yields
\* the values of the column
handle_group_column_changed(a, unique) ==
    IF a.group_col # "" THEN update_groups(a, DisplayNames(unique)) ELSE a

\* the results a thread sends
Progress(progress, status) == [kind |-> "Progress", progress |-> progress, status |-> status, df |-> 0]
Complete(df_id) == [kind |-> "Complete", progress |-> 0, status |-> "", df |-> df_id]
Error == [kind |-> "Error", progress |-> 0, status |-> "", df |-> 0]

\* a thread at its first statement, with the channel it sends on
Spawned(df_id) == [pc |-> "start", df |-> df_id, chan |-> <<>>]

\* let _ = tx.send(result): the result is queued while the receiver of the
\* thread's channel is held, and dropped otherwise
Send(threads, i, rx, result) ==
    [threads EXCEPT ![i].chan = IF rx = i THEN Append(@, result) ELSE @]

\* handle_browse_csv gets past the is_loading check and the dialog returns a
\* file (picked = 0: the dialog was cancelled)
BrowseStartsUnguarded(a, picked) == picked # 0

BrowseStarts(a, picked) == ~a.is_loading /\ picked # 0

\* handle_browse_csv, rx being the receiver of the new channel
handle_browse_csv(a, picked, rx) ==
    IF BrowseStarts(a, picked)
    THEN [set_progress(a, 0, "Loading CSV file...") EXCEPT
              !.chart_data = 0, !.csv_path = picked, !.is_loading = TRUE, !.load_rx = rx]
    ELSE a

\* one LoadResult handled by check_load_results
OnLoadResult(a, result) ==
    IF result.kind = "Progress" THEN set_progress(a, 0, "Reading CSV file...")
    ELSE IF result.kind = "Complete"
    THEN [set_progress(update_columns([a EXCEPT !.loader_df = result.df],
                                      CsvColumns(result.df)), 0, "Loaded")
              EXCEPT !.is_loading = FALSE]
    ELSE [set_progress(a, 0, "Error") EXCEPT !.is_loading = FALSE]

RECURSIVE LoadResultsFrom(_, _, _)
\* while let Ok(result) = rx.try_recv() { ... }, from the k-th queued result
LoadResultsFrom(a, results, k) ==
    IF k > Len(results) THEN a
    ELSE LoadResultsFrom(OnLoadResult(a, results[k]), results, k + 1)

\* should_keep_receiver after the loop
KeepReceiver(results) == \A k \in 1..Len(results) : results[k].kind = "Progress"

\* check_load_results, results being what the channel of load_rx holds
check_load_results(a, results) ==
    IF a.load_rx = 0 THEN a
    ELSE [LoadResultsFrom(a, results, 1) EXCEPT
              !.load_rx = IF KeepReceiver(results) THEN a.load_rx ELSE 0]

\* the Calculate action gets past `if !self.is_calculating` and
\* start_calculation finds a DataFrame
CalculateStarts(a) == ~a.is_calculating /\ a.loader_df # 0

\* ControlPanelAction::Calculate in update, with start_calculation
start_calculation(a, rx) ==
    IF a.is_calculating THEN a
    ELSE IF a.loader_df = 0 THEN set_progress(a, 0, "No data loaded")
    ELSE [set_progress(a, 5, "Processing data...") EXCEPT
              !.calc_rx = rx, !.is_calculating = TRUE]

\* one CalcResult handled by check_calculation_results
OnCalcResult(a, result) ==
    IF result.kind = "Progress" THEN set_progress(a, result.progress, result.status)
    ELSE IF result.kind = "Complete"
    THEN [set_progress(a, 100, "Complete") EXCEPT
              !.chart_data = result.df, !.is_calculating = FALSE]
    ELSE [set_progress(a, 0, "Error") EXCEPT !.is_calculating = FALSE]

RECURSIVE CalcResultsFrom(_, _, _)
CalcResultsFrom(a, results, k) ==
    IF k > Len(results) THEN a
    ELSE CalcResultsFrom(OnCalcResult(a, results[k]), results, k + 1)

\* check_calculation_results, results being what the channel of calc_rx holds
check_calculation_results(a, results) ==
    IF a.calc_rx = 0 THEN a
    ELSE [CalcResultsFrom(a, results, 1) EXCEPT
              !.calc_rx = IF KeepReceiver(results) THEN a.calc_rx ELSE 0]

\* the Export PPT button is enabled
PptEnabled(a) == a.progress >= 100 /\ a.status = "Complete"

\* update(): check_load_results
CheckLoadResults ==
    /\ at = "check_load_results"
    /\ IF app.load_rx = 0
       THEN UNCHANGED <<app, load_threads>>
       ELSE /\ app' = check_load_results(app, load_threads[app.load_rx].chan)
            /\ load_threads' = [load_threads EXCEPT ![app.load_rx].chan = <<>>]
    /\ at' = "check_calculation_results"
    /\ UNCHANGED <<df, control_group, pc, s_stats, par_vars, query_vars, fn_vars, calc_threads>>

\* update(): check_calculation_results
CheckCalculationResults ==
    /\ at = "check_calculation_results"
    /\ IF app.calc_rx = 0
       THEN UNCHANGED <<app, calc_threads>>
       ELSE /\ app' = check_calculation_results(app, calc_threads[app.calc_rx].chan)
            /\ calc_threads' = [calc_threads EXCEPT ![app.calc_rx].chan = <<>>]
    /\ at' = "show"
    /\ UNCHANGED <<df, control_group, pc, s_stats, par_vars, query_vars, fn_vars, load_threads>>

\* update(): the panel returns ControlPanelAction::None
ShowNone ==
    /\ at = "show"
    /\ at' = "check_load_results"
    /\ UNCHANGED <<df, control_group, pc, s_stats, par_vars, query_vars, fn_vars,
                   app, load_threads, calc_threads>>

\* update(): a group is clicked in the control group box
ShowControlGroup ==
    /\ at = "show"
    /\ \E k \in 1..Len(app.groups) : app' = [app EXCEPT !.control_group = app.groups[k]]
    /\ at' = "check_load_results"
    /\ UNCHANGED <<df, control_group, pc, s_stats, par_vars, query_vars, fn_vars,
                   load_threads, calc_threads>>

\* update(): ControlPanelAction::BrowseCsv
ShowBrowseCsv ==
    /\ at = "show"
    /\ \E picked \in {0} \cup Paths :
           /\ BrowseStarts(app, picked) => Len(load_threads) < MaxThreads
           /\ app' = handle_browse_csv(app, picked, Len(load_threads) + 1)
           /\ load_threads' = IF BrowseStarts(app, picked)
                              THEN Append(load_threads, Spawned(picked))
                              ELSE load_threads
    /\ at' = "check_load_results"
    /\ UNCHANGED <<df, control_group, pc, s_stats, par_vars, query_vars, fn_vars, calc_threads>>

\* update(): a column is clicked in the group column box,
\* ControlPanelAction::GroupColumnChanged
ShowGroupColumnChanged ==
    /\ at = "show"
    /\ \E k \in 1..Len(app.columns) :
           \E unique \in UniqueOrders(CsvUnique(app.loader_df, app.columns[k])) :
               app' = handle_group_column_changed([app EXCEPT !.group_col = app.columns[k]],
                                                  unique)
    /\ at' = "check_load_results"
    /\ UNCHANGED <<df, control_group, pc, s_stats, par_vars, query_vars, fn_vars,
                   load_threads, calc_threads>>

\* update(): ControlPanelAction::Calculate
ShowCalculate ==
    /\ at = "show"
    /\ app.calculate_enabled
    /\ CalculateStarts(app) => Len(calc_threads) < MaxThreads
    /\ app' = start_calculation(app, Len(calc_threads) + 1)
    /\ calc_threads' = IF CalculateStarts(app)
                       THEN Append(calc_threads, Spawned(app.loader_df))
                       ELSE calc_threads
    /\ at' = "check_load_results"
    /\ UNCHANGED <<df, control_group, pc, s_stats, par_vars, query_vars, fn_vars, load_threads>>

\* update(): ControlPanelAction::ExportPpt; the export is cancelled in the
\* dialog, fails in rendering or writing, or succeeds
ShowExportPpt ==
    /\ at = "show"
    /\ PptEnabled(app)
    /\ IF app.chart_data = 0
       THEN app' = set_progress(app, 0, "No charts to export")
       ELSE \/ UNCHANGED app
            \/ app' = set_progress(app, 0, "Error")
            \/ app' = set_progress(app, 100, "PPT exported")
    /\ at' = "check_load_results"
    /\ UNCHANGED <<df, control_group, pc, s_stats, par_vars, query_vars, fn_vars,
                   load_threads, calc_threads>>

\* the loading thread: Progress, then the file is read and Complete or
\* Error is sent
LoadThreadStep(i) ==
    /\ load_threads[i].pc \in {"start", "read"}
    /\ \/ /\ load_threads[i].pc = "start"
          /\ load_threads' = [Send(load_threads, i, app.load_rx,
                                   Progress(0, "Reading CSV file..."))
                                  EXCEPT ![i].pc = "read"]
       \/ /\ load_threads[i].pc = "read"
          /\ \E result \in {Complete(load_threads[i].df), Error} :
                 load_threads' = [Send(load_threads, i, app.load_rx, result)
                                      EXCEPT ![i].pc = "done"]
    /\ UNCHANGED <<df, control_group, pc, s_stats, par_vars, query_vars, fn_vars,
                   app, calc_threads, at>>

\* run_calculation: Progress(10), prepare_data (on Err: Error and return),
\* Progress(30), compute_all_stats_parallel, Progress(50), the chart data,
\* Complete
CalcThreadStep(i) ==
    /\ \/ /\ calc_threads[i].pc = "start"
          /\ calc_threads' = [Send(calc_threads, i, app.calc_rx,
                                   Progress(10, "Processing data..."))
                                  EXCEPT ![i].pc = "prepare_data"]
       \/ /\ calc_threads[i].pc = "prepare_data"
          /\ \/ calc_threads' = [Send(calc_threads, i, app.calc_rx,
                                      Progress(30, "Calculating statistics..."))
                                     EXCEPT ![i].pc = "compute_all_stats_parallel"]
             \/ calc_threads' = [Send(calc_threads, i, app.calc_rx, Error)
                                     EXCEPT ![i].pc = "done"]
       \/ /\ calc_threads[i].pc = "compute_all_stats_parallel"
          /\ calc_threads' = [Send(calc_threads, i, app.calc_rx,
                                   Progress(50, "Generating charts..."))
                                  EXCEPT ![i].pc = "chart_data"]
       \/ /\ calc_threads[i].pc = "chart_data"
          /\ calc_threads' = [Send(calc_threads, i, app.calc_rx,
                                   Complete(calc_threads[i].df))
                                  EXCEPT ![i].pc = "done"]
    /\ UNCHANGED <<df, control_group, pc, s_stats, par_vars, query_vars, fn_vars,
                   app, load_threads, at>>

\* a task of compute_all_stats_parallel panics: the panic is resumed in
\* run_calculation, the thread unwinds and its Sender is dropped
CalcThreadPanic(i) ==
    /\ calc_threads[i].pc = "compute_all_stats_parallel"
    /\ calc_threads' = [calc_threads EXCEPT ![i].pc = "panicked"]
    /\ UNCHANGED <<df, control_group, pc, s_stats, par_vars, query_vars, fn_vars,
                   app, load_threads, at>>

InitApp ==
    /\ df = <<>>
    /\ control_group = GroupA
    /\ pc = "idle"
    /\ GuiIdle
    /\ s_stats = NoStats
    /\ ParIdle
    /\ QueryIdle
    /\ FnIdle

\* one handler of update()
UpdateStep ==
    \/ CheckLoadResults
    \/ CheckCalculationResults
    \/ ShowNone
    \/ ShowControlGroup
    \/ ShowBrowseCsv
    \/ ShowGroupColumnChanged
    \/ ShowCalculate
    \/ ShowExportPpt

NextApp ==
    \/ UpdateStep
    \/ \E i \in 1..Len(load_threads) : LoadThreadStep(i)
    \/ \E i \in 1..Len(calc_threads) : CalcThreadStep(i)
    \/ \E i \in 1..Len(calc_threads) : CalcThreadPanic(i)

SpecApp == InitApp /\ [][NextApp]_vars

\* update() keeps being called and a thread that can run does run; nothing
\* makes a task panic or keeps it from panicking
SpecAppLive ==
    /\ SpecApp
    /\ WF_vars(UpdateStep)
    /\ \A i \in 1..MaxThreads : WF_vars(i <= Len(load_threads) /\ LoadThreadStep(i))
    /\ \A i \in 1..MaxThreads : WF_vars(i <= Len(calc_threads) /\ CalcThreadStep(i))

\* ------------------------------------------------------------------------
\* Calls of set_chart_data and clear on one chart viewer
\* ------------------------------------------------------------------------
\* largest number of calls made on the viewer
MaxViewerCalls == 2

\* the names of the data types: X, XX and Y
ViewerTypes == {TypeX, <<88, 88>>, TypeY}

\* a ChartData of the data type: no group significant, the control group
\* alone flagged, or group B significant
ChartDataPool(data_type) ==
    {[data_type |-> data_type,
      data_by_group |-> EmptyMap,
      stats |-> [QueryStats(GroupA, Groups, flagged) EXCEPT !.data_type = data_type]] :
        flagged \in {{}, {GroupA}, {GroupB}}}

\* the maps set_chart_data is called with
ChartDataMaps ==
    UNION {{m \in [keys -> UNION {ChartDataPool(t) : t \in keys}] :
                \A t \in keys : m[t].data_type = t} : keys \in SUBSET ViewerTypes}

\* the viewer after the calls made so far
Viewer == IF fn_ret = <<>> THEN ChartViewerDefault ELSE fn_ret[Len(fn_ret)].ret

CallSetChartData ==
    /\ Len(fn_ret) < MaxViewerCalls
    /\ \E chart_data \in ChartDataMaps :
           \E iter \in UniqueOrders(DOMAIN chart_data) :
               fn_ret' = Append(fn_ret,
                                Called("set_chart_data",
                                       set_chart_data(Viewer, chart_data, iter)))
    /\ UNCHANGED <<df, control_group, pc, s_stats, par_vars, query_vars, fn_args, gui_vars>>

CallClear ==
    /\ Len(fn_ret) < MaxViewerCalls
    /\ fn_ret' = Append(fn_ret, Called("clear", clear(Viewer)))
    /\ UNCHANGED <<df, control_group, pc, s_stats, par_vars, query_vars, fn_args, gui_vars>>

InitViewer ==
    /\ df = <<>>
    /\ control_group = GroupA
    /\ pc = "idle"
    /\ GuiIdle
    /\ s_stats = NoStats
    /\ ParIdle
    /\ QueryIdle
    /\ FnIdle

NextViewer ==
    \/ CallSetChartData
    \/ CallClear

SpecViewer == InitViewer /\ [][NextViewer]_vars

\* ------------------------------------------------------------------------
\* run_calculation from the statistics to the chart data
\* ------------------------------------------------------------------------
\* a group whose name ends in a double quote
GroupAq == <<65, Quote>>

\* the rows of the tables prepare_data hands over: no null and no NaN
ChartRowPool == TableRowPool \cup {Row(GroupAq, TypeX, FromInt(1))}

\* the closure of the second parallel map, run for a data type of the
\* statistics
BuildChartData ==
    /\ pc = "returned"
    /\ \E data_type \in DOMAIN stats :
           /\ ~WasCalled(data_type)
           /\ \E keys \in UniqueOrders(DOMAIN stats[data_type].group_stats) :
                  fn_ret' = Append(fn_ret,
                                   Called(data_type,
                                          ChartDataOf(df, data_type, stats[data_type], keys)))
    /\ UNCHANGED <<df, control_group, pc, s_stats, par_vars, query_vars, fn_args, gui_vars>>

InitChart ==
    /\ df \in TablesOf(ChartRowPool, MaxTableRows)
    /\ control_group \in Groups
    /\ pc = "idle"
    /\ GuiIdle
    /\ s_stats = NoStats
    /\ ParIdle
    /\ QueryIdle
    /\ FnIdle

NextChart ==
    \/ StartCompute
    \/ \E i \in 1..Len(task) : RunTask(i)
    \/ Collect
    \/ BuildChartData

SpecChart == InitChart /\ [][NextChart]_vars

\* ------------------------------------------------------------------------
\* generate_ppt_from_bytes on the rendered images
\* ------------------------------------------------------------------------
\* largest number of images
MaxImages == 9

\* the PNG bytes of a chart
ImagePool == {1, 2}

CallGeneratePpt ==
    /\ fn_ret = <<>>
    /\ \E written \in 0..Len(ArchiveOf(fn_args.image_data)) :
           fn_ret' = <<Called("generate_ppt_from_bytes",
                              generate_ppt_from_bytes(fn_args.image_data, written))>>
    /\ UNCHANGED <<df, control_group, pc, s_stats, par_vars, query_vars, fn_args, gui_vars>>

InitPpt ==
    /\ fn_args \in [image_data : TablesOf(ImagePool, MaxImages)]
    /\ df = <<>>
    /\ control_group = GroupA
    /\ pc = "idle"
    /\ GuiIdle
    /\ s_stats = NoStats
    /\ ParIdle
    /\ QueryIdle
    /\ fn_ret = <<>>

NextPpt == CallGeneratePpt

SpecPpt == InitPpt /\ [][NextPpt]_vars

\* ------------------------------------------------------------------------
\* Properties
\* ------------------------------------------------------------------------
\* the rows of df whose data type is t
RowsOfType(t) ==
    LET Keep(row) == row.data_type = t
    IN SelectSeq(df, Keep)

\* the values of the control group among the rows of data type t
ControlValuesOfType(t) ==
    LET Keep(row) == row.data_type = t /\ row.group = control_group
    IN ValuesOf(SelectSeq(df, Keep))

AllEqual(s) == \A i, j \in 1..Len(s) : s[i] = s[j]

\* the statistics of data type t computed alone from the rows of t
AloneStats(t) ==
    compute_data_type_stats(RowsOfType(t), t, control_group,
                            CHOOSE u \in UniqueOrders(UniqueGroups(RowsOfType(t))) : TRUE)

\* C1: in the result of compute_data_type_stats, a group flagged significant
\* has a p-value Some(p) with p <= 0.05 (so p is not NaN), and it is not the
\* control group.
C1_SignificantHasPValue ==
    pc = "computed" =>
        \A g \in DOMAIN s_stats.group_stats :
            s_stats.group_stats[g].is_significant =>
                /\ s_stats.group_stats[g].p_value.some
                /\ FLe(s_stats.group_stats[g].p_value.v, SIGNIFICANCE_THRESHOLD)
                /\ g # control_group

C1_Witness ==
    /\ pc = "computed"
    /\ \E g \in DOMAIN s_stats.group_stats : s_stats.group_stats[g].is_significant

\* C2: when a group was observed for the data type, the control group is a key
\* of group_stats and its entry has p_value None; the entry has count 0 when no
\* row of the data type belongs to the control group.
C2_ControlKeyPresent ==
    pc = "computed" /\ UniqueGroups(RowsOfType(s_stats.data_type)) # {} =>
        /\ control_group \in DOMAIN s_stats.group_stats
        /\ s_stats.group_stats[control_group].p_value = None
        /\ ControlValuesOfType(s_stats.data_type) = <<>> =>
               s_stats.group_stats[control_group].count = 0

C2_Witness ==
    /\ pc = "computed"
    /\ UniqueGroups(RowsOfType(s_stats.data_type)) # {}
    /\ ControlValuesOfType(s_stats.data_type) = <<>>
    /\ control_group \in DOMAIN s_stats.group_stats
    /\ s_stats.group_stats[control_group].count = 0

\* C3: get_ordered_groups returns every key of group_stats exactly once; the
\* control group comes first when it is a key, and the other groups are in
\* ascending lexicographic order; without the control group among the keys the
\* whole list is ascending.
C3_OrderedGroups ==
    "get_ordered_groups" \in q_calls =>
        LET keys == DOMAIN q_self.group_stats
            n == Len(q_ordered)
            first == IF q_self.control_group \in keys THEN 2 ELSE 1
        IN /\ n = Cardinality(keys)
           /\ {q_ordered[i] : i \in 1..n} = keys
           /\ q_self.control_group \in keys => q_ordered[1] = q_self.control_group
           /\ \A i, j \in first..n : i < j => StrLt(q_ordered[i], q_ordered[j])

\* control C with the groups {B, C, A} gives [C, A, B]
C3_Witness ==
    /\ "get_ordered_groups" \in q_calls
    /\ q_self.control_group = <<67>>
    /\ DOMAIN q_self.group_stats = {<<66>>, <<67>>, <<65>>}
    /\ q_ordered = <<<<67>>, <<65>>, <<66>>>>

\* C4: has_significant_results is true exactly when a group other than the
\* control group is flagged significant.
C4_HasSignificantResults ==
    "has_significant_results" \in q_calls =>
        (q_significant <=>
            {k \in DOMAIN q_self.group_stats : q_self.group_stats[k].is_significant}
                \ {q_self.control_group} # {})

\* the only flagged entry is the control group's, and the result is false
C4_Witness ==
    /\ "has_significant_results" \in q_calls
    /\ {k \in DOMAIN q_self.group_stats : q_self.group_stats[k].is_significant}
           = {q_self.control_group}
    /\ Cardinality(DOMAIN q_self.group_stats) > 1
    /\ ~q_significant

\* C5: a group's p_value is Some exactly when the group is not the control
\* group and the control group has a value in the data type; with no value of
\* the control group, every group has p_value None and is not significant.
C5_PValuePresence ==
    pc = "computed" =>
        \A g \in DOMAIN s_stats.group_stats :
            /\ s_stats.group_stats[g].p_value.some <=>
                   (g # control_group /\ ControlValuesOfType(s_stats.data_type) # <<>>)
            /\ ControlValuesOfType(s_stats.data_type) = <<>> =>
                   /\ s_stats.group_stats[g].p_value = None
                   /\ ~s_stats.group_stats[g].is_significant

\* the control group matches no row and another group has statistics
C5_Witness ==
    /\ pc = "computed"
    /\ ControlValuesOfType(s_stats.data_type) = <<>>
    /\ \E g \in DOMAIN s_stats.group_stats :
           g # control_group /\ s_stats.group_stats[g].count >= 2

\* C6, as claimed: a non-control group's std_diff_from_control is Some exactly
\* when the control group's std is > 0 and its mean is not NaN, and it is None
\* when the control group is empty, has a single value or has all values equal.
C6_NoneWhenControlValuesEqual ==
    pc = "computed" =>
        \A g \in DOMAIN s_stats.group_stats \ {control_group} :
            /\ s_stats.group_stats[g].std_diff_from_control.some <=>
                   /\ FGt(s_stats.group_stats[control_group].std, Zero)
                   /\ ~IsNaN(s_stats.group_stats[control_group].mean)
            /\ AllEqual(ControlValuesOfType(s_stats.data_type)) =>
                   s_stats.group_stats[g].std_diff_from_control = None

\* C6, amended: a non-control group's std_diff_from_control is
\* Some((group mean - control mean) / control std) exactly when the control
\* group's std is > 0 and its mean is not NaN, and None otherwise: when the
\* control group is empty, has a single value or has a computed variance of 0.
\* The control group's own std_diff_from_control is None.
C6_StdDiffFromControl ==
    pc = "computed" =>
        LET c == s_stats.group_stats[control_group]
        IN /\ c.std_diff_from_control = None
           /\ \A g \in DOMAIN s_stats.group_stats \ {control_group} :
                  /\ s_stats.group_stats[g].std_diff_from_control =
                         IF FGt(c.std, Zero) /\ ~IsNaN(c.mean)
                         THEN Some(FDiv(FSub(s_stats.group_stats[g].mean, c.mean), c.std))
                         ELSE None
                  /\ (Len(ControlValuesOfType(s_stats.data_type)) <= 1
                          \/ FEq(c.variance, Zero)) =>
                         s_stats.group_stats[g].std_diff_from_control = None

\* the control group has three equal values and a computed std > 0, and the
\* difference of another group is Some
C6_Witness ==
    /\ pc = "computed"
    /\ Len(ControlValuesOfType(s_stats.data_type)) >= 3
    /\ AllEqual(ControlValuesOfType(s_stats.data_type))
    /\ \E g \in DOMAIN s_stats.group_stats \ {control_group} :
           s_stats.group_stats[g].std_diff_from_control.some

\* C7: whatever the order in which the tasks run, the pair a task yields and
\* the entry stored under data type T are compute_data_type_stats of T alone,
\* computed from the rows of T and the control group only.
C7_TaskIndependence ==
    /\ \A i \in 1..Len(task) :
           task[i] = "done" => out[i] = <<data_types[i], AloneStats(data_types[i])>>
    /\ pc = "returned" => \A t \in DOMAIN stats : stats[t] = AloneStats(t)

\* two data types with rows, both computed and returned
C7_Witness ==
    /\ pc = "returned"
    /\ \E t, u \in DOMAIN stats :
           /\ t # u
           /\ RowsOfType(t) # <<>>
           /\ RowsOfType(u) # <<>>
           /\ Cardinality(DOMAIN stats[t].group_stats) >= 2

\* C8, as claimed: the map is returned after every task has finished, and it
\* has exactly one entry per distinct data_type value of the table, each under
\* its own name.
C8_EntryPerDataType ==
    pc = "returned" =>
        /\ \A i \in 1..Len(task) : task[i] = "done"
        /\ DOMAIN stats = UniqueDataTypes(df)
        /\ \A t \in DOMAIN stats : stats[t].data_type = t

\* C9, as claimed: when the computation has ended, the result of every task
\* that finished is returned to the caller, whatever happened to the others.
C9_FinishedTasksReturned ==
    pc \in {"returned", "panicked"} =>
        \A i \in 1..Len(task) :
            task[i] = "done" =>
                /\ data_types[i] \in DOMAIN stats
                /\ stats[data_types[i]] = out[i][2]

\* C10: computing the statistics again from the same table and control group
\* returns the same map, whatever the order of the tasks and of the unique
\* groups and data types.
C10_Deterministic ==
    pc = "returned" /\ prev.some => stats = prev.map

\* a second computation of two data types, one with two groups
C10_Witness ==
    /\ pc = "returned"
    /\ prev.some
    /\ Len(data_types) >= 2
    /\ \E t \in DOMAIN stats : Cardinality(DOMAIN stats[t].group_stats) >= 2

\* the cells of the loaded table the long-format table has to keep: a
\* finite value with a group and a data type that are present and not empty
WantedSingle(row) ==
    /\ row.cols[ColV].some
    /\ IsFinite(row.cols[ColV].v)
    /\ ~row.group.null /\ row.group.s # <<>>
    /\ ~row.data_type.null /\ row.data_type.s # <<>>

WantedStacked(row, data_col) ==
    /\ row.cols[data_col].some
    /\ IsFinite(row.cols[data_col].v)
    /\ ~row.group.null /\ row.group.s # <<>>

WantedCount(args) ==
    IF args.mode = "Single"
    THEN Cardinality({i \in 1..Len(args.raw) : WantedSingle(args.raw[i])})
    ELSE Cardinality({<<j, i>> \in (1..Len(args.data_cols.v)) \X (1..Len(args.raw)) :
                         /\ HasColumn(args.data_cols.v[j])
                         /\ WantedStacked(args.raw[i], args.data_cols.v[j])})

\* C11: the long-format table prepare_data returns (Single mode, and Multi
\* mode through stack_to_long) has no row with a non-finite value and no row
\* with an empty group or data type, and keeps every other input row
C11_LongTableClean ==
    \A k \in 1..Len(fn_ret) :
        (fn_ret[k].fn = "prepare_data" /\ fn_ret[k].ret.ok) =>
            /\ \A i \in 1..Len(fn_ret[k].ret.rows) :
                   /\ IsFinite(fn_ret[k].ret.rows[i].value)
                   /\ fn_ret[k].ret.rows[i].group # <<>>
                   /\ fn_ret[k].ret.rows[i].data_type # <<>>
            /\ Len(fn_ret[k].ret.rows) = WantedCount(fn_args)

\* the values of a group in the rows of data type t of df
GroupValuesOfType(t, g) ==
    LET Keep(row) == row.data_type = t /\ row.group = g
    IN ValuesOf(SelectSeq(df, Keep))

HasNaN(values) == \E i \in 1..Len(values) : IsNaN(values[i])

\* C12: perform_ttest returns (NaN, false) when a sample has fewer than 2
\* values and when the t distribution cannot be constructed (the degrees of
\* freedom are NaN as soon as a value is NaN); in compute_data_type_stats
\* every group of the data type gets its statistics, whatever the outcome of
\* the t-test of another group, a group with such an outcome storing
\* Some(NaN) and not significant
C12_TTestNeverFails ==
    /\ \A k \in 1..Len(fn_ret) :
           fn_ret[k].fn = "perform_ttest" =>
               /\ (Len(fn_args.group_values) < 2 \/ Len(fn_args.control_values) < 2)
                      => fn_ret[k].ret = <<NaN, FALSE>>
               /\ (HasNaN(fn_args.group_values) \/ HasNaN(fn_args.control_values))
                      => fn_ret[k].ret = <<NaN, FALSE>>
               /\ fn_ret[k].ret[2] \in BOOLEAN
    /\ (pc = "computed" /\ s_stats.data_type = TypeX) =>
           /\ DOMAIN s_stats.group_stats = UniqueGroups(df) \cup {control_group}
           /\ \A g \in UniqueGroups(df) \ {control_group} :
                  /\ s_stats.group_stats[g].count = Len(GroupValuesOfType(TypeX, g))
                  /\ GroupValuesOfType(TypeX, control_group) # <<>>
                         => s_stats.group_stats[g].p_value.some
                  /\ (/\ GroupValuesOfType(TypeX, control_group) # <<>>
                      /\ \/ Len(GroupValuesOfType(TypeX, g)) < 2
                         \/ Len(GroupValuesOfType(TypeX, control_group)) < 2)
                         => /\ s_stats.group_stats[g].p_value = Some(NaN)
                            /\ ~s_stats.group_stats[g].is_significant

\* group B has a single value and gets (NaN, false) while group C, computed
\* in the same call, gets a p-value that is a number; the direct call on a
\* sample with a NaN returned (NaN, false)
C12_Witness ==
    /\ pc = "computed" /\ s_stats.data_type = TypeX
    /\ Len(fn_args.group_values) = 1
    /\ Len(fn_args.control_values) >= 2
    /\ GroupB \in DOMAIN s_stats.group_stats
    /\ s_stats.group_stats[GroupB].p_value = Some(NaN)
    /\ GroupC \in DOMAIN s_stats.group_stats
    /\ s_stats.group_stats[GroupC].p_value.some
    /\ ~IsNaN(s_stats.group_stats[GroupC].p_value.v)
    /\ fn_ret # <<>>
    /\ fn_ret[1].ret = <<NaN, FALSE>>

\* C13 as stated: two samples of at least 2 values each, every value of a
\* sample being the same, give exactly (1.0, false)
C13_ConstantSamplesNoDifference ==
    \A k \in 1..Len(fn_ret) :
        (/\ fn_ret[k].fn = "perform_ttest"
         /\ Len(fn_args.group_values) >= 2 /\ Len(fn_args.control_values) >= 2
         /\ AllFinite(fn_args.group_values) /\ AllFinite(fn_args.control_values)
         /\ AllEqual(fn_args.group_values) /\ AllEqual(fn_args.control_values))
            => fn_ret[k].ret = <<FromInt(1), FALSE>>

\* C13: two samples of at least 2 values each whose computed variances are
\* both 0 (se == 0.0) give exactly (1.0, false); so do two constant samples
\* whose computed means equal their values, with equal or different means
C13_ZeroStandardError ==
    \A k \in 1..Len(fn_ret) :
        (/\ fn_ret[k].fn = "perform_ttest"
         /\ Len(fn_args.group_values) >= 2 /\ Len(fn_args.control_values) >= 2
         /\ AllFinite(fn_args.group_values) /\ AllFinite(fn_args.control_values))
            => /\ (/\ SampleVariance(fn_args.group_values, MeanOf(fn_args.group_values)) = Zero
                   /\ SampleVariance(fn_args.control_values, MeanOf(fn_args.control_values)) = Zero)
                      => fn_ret[k].ret = <<FromInt(1), FALSE>>
               /\ (/\ AllEqual(fn_args.group_values) /\ AllEqual(fn_args.control_values)
                   /\ MeanOf(fn_args.group_values) = fn_args.group_values[1]
                   /\ MeanOf(fn_args.control_values) = fn_args.control_values[1])
                      => fn_ret[k].ret = <<FromInt(1), FALSE>>

\* sample [3, 3] against control [0, 0]: constant samples with different means
C13_Witness ==
    /\ fn_ret # <<>>
    /\ fn_ret[1].fn = "perform_ttest"
    /\ fn_args.group_values = <<FromInt(3), FromInt(3)>>
    /\ fn_args.control_values = <<FromInt(0), FromInt(0)>>
    /\ fn_ret[1].ret = <<FromInt(1), FALSE>>

\* the rank (p / 100) * (n - 1) of the claim, and its fractional part
ClaimRank(args) ==
    FMul(FDiv(args.p, FromInt(100)), FromInt(Len(args.sorted_values) - 1))

ClaimFrac(rank) == FSub(rank, FromInt(FloorInt(rank)))

ClaimUpper(rank, n) == IF CeilInt(rank) < n - 1 THEN CeilInt(rank) ELSE n - 1

\* sorted[floor(r)] * (1 - frac) + sorted[min(ceil(r), n - 1)] * frac
ClaimInterpolation(sv, rank) ==
    FAdd(FMul(sv[FloorInt(rank) + 1], FSub(FromInt(1), ClaimFrac(rank))),
         FMul(sv[ClaimUpper(rank, Len(sv)) + 1], ClaimFrac(rank)))

\* NaN, the single value, or the interpolation at in-range indexes
PercentileByCases(args, ret) ==
    IF Len(args.sorted_values) = 0 THEN ret = NaN
    ELSE IF Len(args.sorted_values) = 1 THEN ret = args.sorted_values[1]
    ELSE /\ FloorInt(ClaimRank(args)) \in 0..(Len(args.sorted_values) - 1)
         /\ ClaimUpper(ClaimRank(args), Len(args.sorted_values))
                \in FloorInt(ClaimRank(args))..(Len(args.sorted_values) - 1)
         /\ ret = ClaimInterpolation(args.sorted_values, ClaimRank(args))

PercentileExamples(args, ret) ==
    /\ (args.sorted_values = <<FromInt(1), FromInt(2), FromInt(3), FromInt(4)>>
        /\ args.p = FromInt(50)) => ret = FDiv(FromInt(5), FromInt(2))
    /\ (args.sorted_values = <<FromInt(1), FromInt(2), FromInt(3)>>
        /\ args.p = FromInt(50)) => ret = FromInt(2)

\* C14 as stated: percentile is NaN for an empty input, the value for a
\* single one, otherwise the linear interpolation at in-range indexes; the
\* result lies between sorted[0] and sorted[n-1]; the two examples hold
C14_PercentileWithinRange ==
    \A k \in 1..Len(fn_ret) :
        fn_ret[k].fn = "percentile" =>
            /\ PercentileByCases(fn_args, fn_ret[k].ret)
            /\ PercentileExamples(fn_args, fn_ret[k].ret)
            /\ Len(fn_args.sorted_values) >= 1 =>
                   /\ FLe(fn_args.sorted_values[1], fn_ret[k].ret)
                   /\ FLe(fn_ret[k].ret, fn_args.sorted_values[Len(fn_args.sorted_values)])

\* C14: percentile is NaN for an empty input, the value for a single one,
\* otherwise the linear interpolation at in-range indexes; p = 0 gives
\* sorted[0] and p = 100 gives sorted[n-1]; the two examples hold
C14_Percentile ==
    \A k \in 1..Len(fn_ret) :
        fn_ret[k].fn = "percentile" =>
            /\ PercentileByCases(fn_args, fn_ret[k].ret)
            /\ PercentileExamples(fn_args, fn_ret[k].ret)
            /\ (Len(fn_args.sorted_values) >= 1 /\ fn_args.p = FromInt(0))
                   => fn_ret[k].ret = fn_args.sorted_values[1]
            /\ (Len(fn_args.sorted_values) >= 1 /\ fn_args.p = FromInt(100))
                   => fn_ret[k].ret = fn_args.sorted_values[Len(fn_args.sorted_values)]

\* percentile([1, 2, 3, 4], 50) has returned 2.5
C14_Witness ==
    /\ fn_ret # <<>>
    /\ fn_ret[1].fn = "percentile"
    /\ fn_args.sorted_values = <<FromInt(1), FromInt(2), FromInt(3), FromInt(4)>>
    /\ fn_args.p = FromInt(50)
    /\ fn_ret[1].ret = FDiv(FromInt(5), FromInt(2))

\* the k-th smallest of the values (k from 1)
KthSmallest(values, k) ==
    CHOOSE v \in {values[i] : i \in 1..Len(values)} :
        /\ Cardinality({i \in 1..Len(values) : LtNum(values[i], v)}) < k
        /\ k <= Cardinality({i \in 1..Len(values) : ~LtNum(v, values[i])})

\* the middle element, or the average of the two middle elements
ClaimMedian(values) ==
    IF Len(values) % 2 = 1 THEN KthSmallest(values, Len(values) \div 2 + 1)
    ELSE FDiv(FAdd(KthSmallest(values, Len(values) \div 2),
                   KthSmallest(values, Len(values) \div 2 + 1)), FromInt(2))

\* the sum of the squared deviations from the mean over count - 1
ClaimVariance(values, mean) ==
    IF Len(values) = 1 THEN Zero
    ELSE FDiv(FSum([i \in 1..Len(values) |-> FMul(FSub(values[i], mean), FSub(values[i], mean))]),
              FromInt(Len(values) - 1))

\* C15: for a non-empty input compute_descriptive_stats returns the number
\* of values as count, the middle sorted element (odd count) or the average
\* of the two middle ones (even count) as median, the sum of the squared
\* deviations over count - 1 as variance (0 for a single value) and its
\* square root as std; [5.0] gives count 1, mean = median = 5.0 and
\* std = variance = 0; count and median are the same for the values in
\* another order
C15_DescriptiveStats ==
    /\ (Len(fn_ret) >= 1 /\ fn_args.values # <<>>) =>
           /\ fn_ret[1].ret.count = Len(fn_args.values)
           /\ fn_ret[1].ret.median = ClaimMedian(fn_args.values)
           /\ fn_ret[1].ret.variance = ClaimVariance(fn_args.values, fn_ret[1].ret.mean)
           /\ fn_ret[1].ret.std = FSqrt(fn_ret[1].ret.variance)
           /\ fn_args.values = <<FromInt(5)>> =>
                  /\ fn_ret[1].ret.count = 1
                  /\ fn_ret[1].ret.mean = FromInt(5)
                  /\ fn_ret[1].ret.median = FromInt(5)
                  /\ fn_ret[1].ret.std = Zero
                  /\ fn_ret[1].ret.variance = Zero
    /\ (Len(fn_ret) = 2 /\ fn_args.values # <<>>) =>
           /\ fn_ret[2].ret.count = fn_ret[1].ret.count
           /\ fn_ret[2].ret.median = fn_ret[1].ret.median

\* four values, not sorted and not all equal, computed in two orders
C15_Witness ==
    /\ Len(fn_ret) = 2
    /\ Len(fn_args.values) = 4
    /\ fn_args.reordered # fn_args.values
    /\ LtNum(fn_args.values[2], fn_args.values[1])
    /\ fn_ret[1].ret.median # fn_args.values[2]
    /\ FGt(fn_ret[1].ret.variance, Zero)

\* C16: on an empty input compute_descriptive_stats returns the default
\* record: count 0, every statistic NaN, no standardized difference, no
\* p-value, not significant
C16_EmptyInputDefault ==
    \A k \in 1..Len(fn_ret) :
        (/\ fn_ret[k].fn = "compute_descriptive_stats"
         /\ fn_args.values = <<>>) =>
            /\ fn_ret[k].ret.count = 0
            /\ IsNaN(fn_ret[k].ret.mean) /\ IsNaN(fn_ret[k].ret.median)
            /\ IsNaN(fn_ret[k].ret.std) /\ IsNaN(fn_ret[k].ret.variance)
            /\ IsNaN(fn_ret[k].ret.p95) /\ IsNaN(fn_ret[k].ret.p05)
            /\ fn_ret[k].ret.std_diff_from_control = None
            /\ fn_ret[k].ret.p_value = None
            /\ fn_ret[k].ret.is_significant = FALSE

\* compute_descriptive_stats has returned from a call on no value
C16_Witness ==
    /\ fn_ret # <<>>
    /\ fn_ret[1].fn = "compute_descriptive_stats"
    /\ fn_args.values = <<>>
    /\ fn_ret[1].ret.count = 0

\* the values of a sequence, as a set
RangeOf(values) == {values[i] : i \in 1..Len(values)}

\* the index convention of the box: q1 = sorted[n div 4],
\* median = sorted[n div 2], q3 = sorted[3n div 4], three indexes below n,
\* and 3, 5 and 7 for the values 1..8
BoxByIndexes(values, box) ==
    /\ box.drawn
    /\ (3 * Len(values)) \div 4 < Len(values)
    /\ box.q1 = KthSmallest(values, Len(values) \div 4 + 1)
    /\ box.median = KthSmallest(values, Len(values) \div 2 + 1)
    /\ box.q3 = KthSmallest(values, (3 * Len(values)) \div 4 + 1)
    /\ RangeOf(values) = RangeOf(OneToEight) =>
           /\ box.q1 = FromInt(3)
           /\ box.median = FromInt(5)
           /\ box.q3 = FromInt(7)

\* C17 as stated: for a non-empty group of n values both renderers take
\* q1 = sorted[n div 4], median = sorted[n div 2] and q3 = sorted[3n div 4],
\* three indexes below n; the values 1..8 give 3, 5 and 7; for even n the box
\* median differs from the median of GroupStats
C17_BoxMedianDiffersForEvenN ==
    \A k \in 1..Len(fn_ret) :
        (fn_ret[k].fn \in {"draw_boxplot_chart", "draw_boxplot"} /\ fn_args.values # <<>>) =>
            /\ BoxByIndexes(fn_args.values, fn_ret[k].ret)
            /\ Len(fn_args.values) % 2 = 0 =>
                   fn_ret[k].ret.median # ClaimMedian(fn_args.values)

\* C17: for a non-empty group of n values both renderers take
\* q1 = sorted[n div 4], median = sorted[n div 2] and q3 = sorted[3n div 4],
\* three indexes below n; the values 1..8 give 3, 5 and 7, where the median
\* of GroupStats is 4.5; for even n the box median is the upper middle
\* element: it is never below the median of GroupStats and equals it when
\* the two middle elements are equal
C17_BoxQuartileIndexes ==
    \A k \in 1..Len(fn_ret) :
        (fn_ret[k].fn \in {"draw_boxplot_chart", "draw_boxplot"} /\ fn_args.values # <<>>) =>
            /\ BoxByIndexes(fn_args.values, fn_ret[k].ret)
            /\ RangeOf(fn_args.values) = RangeOf(OneToEight) =>
                   /\ ClaimMedian(fn_args.values) = FDiv(FromInt(9), FromInt(2))
                   /\ fn_ret[k].ret.median # ClaimMedian(fn_args.values)
            /\ Len(fn_args.values) % 2 = 0 =>
                   /\ FLe(ClaimMedian(fn_args.values), fn_ret[k].ret.median)
                   /\ (KthSmallest(fn_args.values, Len(fn_args.values) \div 2)
                          = KthSmallest(fn_args.values, Len(fn_args.values) \div 2 + 1))
                          => fn_ret[k].ret.median = ClaimMedian(fn_args.values)

\* both renderers have drawn the box of the values 1..8
C17_Witness ==
    /\ Len(fn_ret) = 2
    /\ fn_args.values = Reverse(OneToEight)
    /\ fn_ret[1].ret.median = FromInt(5)
    /\ fn_ret[2].ret.median = FromInt(5)
    /\ ClaimMedian(fn_args.values) = FDiv(FromInt(9), FromInt(2))

\* C18: the low whisker is the smallest value >= q1 - 1.5 * iqr and the high
\* whisker the largest value <= q3 + 1.5 * iqr; both are values of the group
\* and whisker_low <= q1 <= median <= q3 <= whisker_high
C18_Whiskers ==
    \A k \in 1..Len(fn_ret) :
        (fn_ret[k].fn \in {"draw_boxplot_chart", "draw_boxplot"} /\ fn_args.values # <<>>) =>
            /\ fn_ret[k].ret.whisker_low \in RangeOf(fn_args.values)
            /\ fn_ret[k].ret.whisker_high \in RangeOf(fn_args.values)
            /\ FLe(LowFence(fn_ret[k].ret.q1, FSub(fn_ret[k].ret.q3, fn_ret[k].ret.q1)),
                   fn_ret[k].ret.whisker_low)
            /\ FLe(fn_ret[k].ret.whisker_high,
                   HighFence(fn_ret[k].ret.q3, FSub(fn_ret[k].ret.q3, fn_ret[k].ret.q1)))
            /\ \A v \in RangeOf(fn_args.values) :
                   /\ FLe(LowFence(fn_ret[k].ret.q1, FSub(fn_ret[k].ret.q3, fn_ret[k].ret.q1)), v)
                          => FLe(fn_ret[k].ret.whisker_low, v)
                   /\ FLe(v, HighFence(fn_ret[k].ret.q3, FSub(fn_ret[k].ret.q3, fn_ret[k].ret.q1)))
                          => FLe(v, fn_ret[k].ret.whisker_high)
            /\ FLe(fn_ret[k].ret.whisker_low, fn_ret[k].ret.q1)
            /\ FLe(fn_ret[k].ret.q1, fn_ret[k].ret.median)
            /\ FLe(fn_ret[k].ret.median, fn_ret[k].ret.q3)
            /\ FLe(fn_ret[k].ret.q3, fn_ret[k].ret.whisker_high)

\* both renderers have drawn a box of positive height whose low whisker is
\* not the smallest value of the group: a value lies below the low fence
C18_Witness ==
    /\ Len(fn_ret) = 2
    /\ \E v \in RangeOf(fn_args.values) : FLt(v, fn_ret[1].ret.whisker_low)
    /\ FLt(fn_ret[1].ret.q1, fn_ret[1].ret.q3)
    /\ fn_ret[2].ret = fn_ret[1].ret

\* the indexes of the values that share the key of the j-th value
ClusterOf(y_values, j) ==
    {i \in 1..Len(y_values) : KeyOf(y_values[i]) = KeyOf(y_values[j])}

\* the place (from 0) of the j-th value in its cluster, in input order
PlaceInCluster(y_values, j) == Cardinality({i \in ClusterOf(y_values, j) : i < j})

\* center for a value alone in its cluster, else
\* center - width/2 + i * width/(k-1)
ClaimPosition(args, j) ==
    IF Cardinality(ClusterOf(args.y_values, j)) = 1 THEN args.center
    ELSE FAdd(FSub(args.center, FDiv(args.width, FromInt(2))),
              FMul(FromInt(PlaceInCluster(args.y_values, j)),
                   FDiv(args.width, FromInt(Cardinality(ClusterOf(args.y_values, j)) - 1))))

\* one position per value, each the position of the claim; [5, 5, 5] with
\* center 0 and width 0.6 gives -0.3, 0, 0.3
PositionsByFormula(args, ret) ==
    /\ Len(ret) = Len(args.y_values)
    /\ \A j \in 1..Len(ret) : ret[j] = ClaimPosition(args, j)
    /\ (/\ args.y_values = <<FromInt(5), FromInt(5), FromInt(5)>>
        /\ args.center = FromInt(0)
        /\ args.width = FDiv(FromInt(6), FromInt(10)))
           => ret = <<FNeg(FDiv(FromInt(3), FromInt(10))), FromInt(0),
                      FDiv(FromInt(3), FromInt(10))>>

\* the positions of a cluster increase with the input order
ClusterIncreasing(args, ret) ==
    \A i, j \in 1..Len(ret) :
        (i < j /\ KeyOf(args.y_values[i]) = KeyOf(args.y_values[j])) => FLt(ret[i], ret[j])

C20_BeeswarmDeterministic ==
    Len(fn_ret) = 2 => fn_ret[2].ret = fn_ret[1].ret

\* two calls on values that form two clusters of two
C20_Witness ==
    /\ Len(fn_ret) = 2
    /\ Len(fn_args.y_values) = 4
    /\ Cardinality(KeysOf(fn_args.y_values)) = 2
    /\ \A j \in 1..4 : Cardinality(ClusterOf(fn_args.y_values, j)) = 2
    /\ fn_ret[1].ret # [j \in 1..4 |-> fn_args.center]

\* the plotting position (i + 0.5) / n of the i-th (from 0) of n values
ClaimPlottingPosition(i, n) == FDiv(FromInt(2 * i + 1), FromInt(2 * n))

\* the points of a quantile plot are those of the mid-point convention
PointsByMidPoint(values, points) ==
    /\ Len(points) = Len(values)
    /\ \A k \in 1..Len(points) :
           /\ points[k].p = ClaimPlottingPosition(k - 1, Len(values))
           /\ FLt(Zero, points[k].p) /\ FLt(points[k].p, FromInt(1))
           /\ RendererNormalPpf(points[k].p).branch \in {"lower", "central", "upper"}
           /\ points[k].x = RendererNormalPpf(points[k].p).value
           /\ points[k].y = KthSmallest(values, k)

\* C21: in the quantile plot of the plotter and in that of the renderer, the
\* i-th (from 0) of the n sorted values of a group has plotting position
\* (i + 0.5) / n, strictly between 0 and 1, so that normal_ppf takes no
\* sentinel branch; its x is normal_ppf of the position and its y the value.
C21_QuantilePlotMidPoint ==
    \A k \in 1..Len(fn_ret) :
        fn_ret[k].fn \in {"draw_qq_chart", "draw_qq_plot"} =>
            PointsByMidPoint(fn_args.values, fn_ret[k].ret)

\* the quantile plot of the renderer alone follows the mid-point convention
C21_RendererMidPoint ==
    \A k \in 1..Len(fn_ret) :
        fn_ret[k].fn = "draw_qq_plot" => PointsByMidPoint(fn_args.values, fn_ret[k].ret)

\* the plotter has drawn two values at the positions 0 and 1
C21_PlotterEnds ==
    \E k \in 1..Len(fn_ret) :
        /\ fn_ret[k].fn = "draw_qq_chart"
        /\ Len(fn_ret[k].ret) = 2
        /\ fn_ret[k].ret[1].p = Zero
        /\ fn_ret[k].ret[2].p = FromInt(1)
        /\ fn_ret[k].ret[2].x = FromInt(1)

\* the layouts of a group without values: nothing is drawn
EmptyLayout(call) ==
    /\ call.fn \in {"draw_boxplot_chart", "draw_boxplot"} => ~call.ret.drawn
    /\ call.fn \in {"beeswarm_positions", "draw_qq_chart", "draw_qq_plot"} => call.ret = <<>>

\* the layouts of a group of the one value v
SingleLayout(call, v, center) ==
    /\ call.fn \in {"draw_boxplot_chart", "draw_boxplot"} =>
           /\ call.ret.drawn
           /\ call.ret.q1 = v /\ call.ret.median = v /\ call.ret.q3 = v
           /\ call.ret.whisker_low = v /\ call.ret.whisker_high = v
    /\ call.fn = "beeswarm_positions" => call.ret = <<center>>
    /\ call.fn \in {"draw_qq_chart", "draw_qq_plot"} =>
           /\ Len(call.ret) = 1
           /\ call.ret[1].p = FDiv(FromInt(1), FromInt(2))
           /\ call.ret[1].y = v
    /\ call.fn = "draw_qq_plot" => call.ret[1].x = Zero

ClaimBranch(p) ==
    IF FLe(p, Zero) THEN "negative sentinel"
    ELSE IF FLe(FromInt(1), p) THEN "positive sentinel"
    ELSE IF FLt(Zero, p) /\ FLt(p, PLow) THEN "lower"
    ELSE IF FLe(PLow, p) /\ FLe(p, FSub(FromInt(1), PLow)) THEN "central"
    ELSE "upper"

\* what the claim says of one call of normal_ppf on p
PpfByCases(p, res, neg, pos) ==
    /\ res.branch = ClaimBranch(p)
    /\ res.branch = "negative sentinel" => res.value = neg /\ ~res.ln_arg.some
    /\ res.branch = "positive sentinel" => res.value = pos /\ ~res.ln_arg.some
    /\ res.branch = "lower" => res.value = TailRatio(TailArgument(p))
    /\ res.branch = "upper" =>
           res.value = FNeg(TailRatio(TailArgument(FSub(FromInt(1), p))))
    /\ res.branch = "central" =>
           /\ ~res.ln_arg.some
           /\ res.value = CentralRatio(FSub(p, Dec(5, 1)), FSquare(FSub(p, Dec(5, 1))))
           /\ p = Dec(5, 1) => res.value = Zero

\* C23: on every p the two implementations of normal_ppf take the same
\* branch: the negative sentinel for p <= 0 and the positive one for p >= 1,
\* no logarithm being evaluated, the lower-tail ratio for 0 < p < p_low, the
\* central ratio for p_low <= p <= 1 - p_low (0 at p = 0.5), the negated
\* tail ratio above; the sentinels are -infinity and infinity in the
\* plotter, -3.5 and 3.5 in the renderer, and every other value is the same.
C23_NormalPpfCases ==
    /\ \A k \in 1..Len(fn_ret) :
           /\ fn_ret[k].fn = "ChartPlotter::normal_ppf" =>
                  PpfByCases(fn_args.p, fn_ret[k].ret, Infinity(-1), Infinity(1))
           /\ fn_ret[k].fn = "StaticChartRenderer::normal_ppf" =>
                  PpfByCases(fn_args.p, fn_ret[k].ret, FNeg(Dec(35, 1)), Dec(35, 1))
    /\ \A j, k \in 1..Len(fn_ret) :
           /\ fn_ret[j].ret.branch = fn_ret[k].ret.branch
           /\ fn_ret[j].ret.branch \in {"lower", "central", "upper"} =>
                  fn_ret[j].ret = fn_ret[k].ret

\* both implementations were called on p_low, the first p of the central
\* region
C23_Witness ==
    /\ fn_args.p = PLow
    /\ Len(fn_ret) = 2
    /\ fn_ret[1].ret.branch = "central"
    /\ fn_ret[2].ret.branch = "central"

\* C24: whenever the chart viewer holds chart data, the data was computed
\* from the DataFrame the loader holds, and no file has been selected since.
C24_ChartsOfCurrentData ==
    app.chart_data # 0 =>
        /\ app.chart_data = app.loader_df
        /\ app.chart_data = app.csv_path

\* C25: under SpecAppLive, whenever is_calculating is true it becomes false
\* again.
C25_CalculationEnds == app.is_calculating ~> ~app.is_calculating

\* the threads that have not returned
InFlight(threads) == {i \in 1..Len(threads) : threads[i].pc \notin {"done", "panicked"}}

\* one worker at most, the flag agrees with the receiver, and a thread that
\* runs or has results queued is the one whose receiver is held
OneWorker(threads, flag, rx) ==
    /\ Cardinality(InFlight(threads)) <= 1
    /\ flag <=> rx # 0
    /\ \A i \in 1..Len(threads) :
           (i \in InFlight(threads) \/ threads[i].chan # <<>>) => rx = i

\* a handler of the panel that runs while the flag is set starts no thread
\* and leaves the receiver as it is
NoSecondWorker(flag, threads, threads_after, rx, rx_after) ==
    (at = "show" /\ flag) => Len(threads_after) = Len(threads) /\ rx_after = rx

\* C26: after every handler at most one loading thread and at most one
\* calculation thread has not returned, is_loading is true exactly when
\* load_rx holds a receiver and is_calculating exactly when calc_rx does,
\* and every thread that runs or has sent results not yet received is the
\* one whose receiver is held; a Browse action while is_loading and a
\* Calculate action while is_calculating spawn no thread and leave the
\* receiver unchanged.
C26_OneWorkerPerKind ==
    /\ [](OneWorker(load_threads, app.is_loading, app.load_rx)
            /\ OneWorker(calc_threads, app.is_calculating, app.calc_rx))
    /\ [][NoSecondWorker(app.is_loading, load_threads, load_threads',
                         app.load_rx, app'.load_rx)
            /\ NoSecondWorker(app.is_calculating, calc_threads, calc_threads',
                              app.calc_rx, app'.calc_rx)]_vars

\* the panel is shown while the second file is being read and a calculation
\* on the first has sent results: Browse and Calculate start nothing now
C26_Witness ==
    /\ at = "show"
    /\ app.is_loading
    /\ Len(load_threads) = 2
    /\ load_threads[2].pc = "read"
    /\ app.is_calculating
    /\ Len(calc_threads) = 1
    /\ calc_threads[1].chan # <<>>

\* C29: once update_groups was called with a non-empty list, the control
\* group is one of the groups of the list given last.
C29_ControlGroupListed ==
    app.groups # <<>> => \E k \in 1..Len(app.groups) : app.control_group = app.groups[k]

\* data type a comes before data type b in the order of the viewer
ComesBefore(chart_data, a, b) ==
    \/ has_significant_results(chart_data[a].stats)
           /\ ~has_significant_results(chart_data[b].stats)
    \/ /\ has_significant_results(chart_data[a].stats)
              <=> has_significant_results(chart_data[b].stats)
       /\ StrLt(a, b)

\* C27: after every sequence of set_chart_data and clear, data_type_order
\* holds every key of chart_data once and nothing else, the data types with
\* significant results first in ascending order of their names, then the
\* others in ascending order.
C27_OrderOfViewer ==
    /\ Len(Viewer.data_type_order) = Cardinality(DOMAIN Viewer.chart_data)
    /\ {Viewer.data_type_order[k] : k \in 1..Len(Viewer.data_type_order)}
           = DOMAIN Viewer.chart_data
    /\ \A j, k \in 1..Len(Viewer.data_type_order) :
           j < k => ComesBefore(Viewer.chart_data, Viewer.data_type_order[j],
                                Viewer.data_type_order[k])

\* after clear, set_chart_data was called with three data types, of which Y
\* alone has significant results: Y comes first, then X and XX
C27_Witness ==
    /\ Len(fn_ret) = 2
    /\ fn_ret[1].fn = "clear"
    /\ fn_ret[2].fn = "set_chart_data"
    /\ Viewer.data_type_order = <<TypeY, TypeX, <<88, 88>>>>
    /\ Viewer.chart_data[TypeX].stats.group_stats[GroupA].is_significant

\* the raw values of a ChartData and its table describe the same samples
ChartConsistent(chart) ==
    /\ DOMAIN chart.data_by_group = DOMAIN chart.stats.group_stats
    /\ \A group \in DOMAIN chart.stats.group_stats :
           /\ Len(chart.data_by_group[group]) = chart.stats.group_stats[group].count
           /\ chart.data_by_group[group]
                  = ValuesOf(SelectSeq(df, LAMBDA row : row.data_type = chart.data_type
                                                            /\ row.group = group))

\* C28: in every ChartData built by run_calculation, data_by_group has
\* exactly the keys of stats.group_stats, and the number of raw values of
\* every group is the count of the group in the statistics (0 for a control
\* group without rows of the data type).
C28_ChartDataConsistent ==
    \A k \in 1..Len(fn_ret) :
        /\ ChartConsistent(fn_ret[k].ret)
        /\ control_group \in DOMAIN fn_ret[k].ret.data_by_group
        /\ (\A i \in 1..Len(df) :
                ~(df[i].data_type = fn_ret[k].fn /\ df[i].group = control_group))
               => /\ fn_ret[k].ret.data_by_group[control_group] = <<>>
                  /\ fn_ret[k].ret.stats.group_stats[control_group].count = 0

\* the chart data of X was built from a table with two rows of group B and
\* data type X, a row of data type Y, and no row of the control group in X
C28_Witness ==
    /\ control_group = GroupA
    /\ \E k \in 1..Len(fn_ret) :
           /\ fn_ret[k].fn = TypeX
           /\ DOMAIN fn_ret[k].ret.data_by_group = {GroupA, GroupB}
           /\ Len(fn_ret[k].ret.data_by_group[GroupB]) = 2
           /\ fn_ret[k].ret.data_by_group[GroupA] = <<>>
    /\ \E i \in 1..Len(df) : df[i].data_type = TypeY

\* the parts of a directory in an archive
PartsOf(archive, dir) == {k \in 1..Len(archive) : archive[k].dir = dir}

\* the relationships to image k: the part of the relationships of a slide
\* and the place of the relationship in it
ReferencesTo(archive, k) ==
    {ref \in (1..Len(archive)) \X (1..5) :
        /\ archive[ref[1]].dir = "ppt/slides/_rels"
        /\ ref[2] <= Len(archive[ref[1]].content)
        /\ archive[ref[1]].content[ref[2]].type = "image"
        /\ archive[ref[1]].content[ref[2]].target = k}

\* the pictures of slide number num that embed relationship id
PicturesOf(archive, num, id) ==
    {pic \in UNION {{archive[j].content[i] : i \in 1..Len(archive[j].content)} :
                        j \in {j \in PartsOf(archive, "ppt/slides") : archive[j].num = num}} :
        pic.r_id = id}

\* the rectangle of cell c (from 0) of the grid: two columns, two rows,
\* half an inch of margin and a quarter of an inch between the cells
CellOf(c) ==
    [x |-> 457200 + (c % 2) * (4000500 + 228600),
     y |-> 457200 + (c \div 2) * (2857500 + 228600),
     cx |-> 4000500, cy |-> 2857500]

\* image k is a media part, and one slide refers to it, at its cell
ImagePlaced(archive, image_data, k) ==
    /\ \E j \in PartsOf(archive, "ppt/media") :
           archive[j].num = k /\ archive[j].content = image_data[k]
    /\ Cardinality(ReferencesTo(archive, k)) = 1
    /\ \A ref \in ReferencesTo(archive, k) :
           /\ archive[ref[1]].num = (k + 3) \div 4
           /\ archive[ref[1]].content[ref[2]].id = ((k - 1) % 4) + 2
           /\ Cardinality(PicturesOf(archive, (k + 3) \div 4, ((k - 1) % 4) + 2)) = 1
           /\ \A pic \in PicturesOf(archive, (k + 3) \div 4, ((k - 1) % 4) + 2) :
                  [x |-> pic.x, y |-> pic.y, cx |-> pic.cx, cy |-> pic.cy]
                      = CellOf((k - 1) % 4)

\* every image a slide refers to is a media part of the archive
TargetsWritten(archive) ==
    \A j \in PartsOf(archive, "ppt/slides/_rels") :
        \A r \in 1..Len(archive[j].content) :
            archive[j].content[r].type = "image" =>
                \E m \in PartsOf(archive, "ppt/media") :
                    archive[m].num = archive[j].content[r].target

\* the cells lie on the slide and no two of them overlap
GridOnSlide ==
    /\ \A c \in 0..3 :
           /\ CellOf(c).x >= 0 /\ CellOf(c).x + CellOf(c).cx <= 9144000
           /\ CellOf(c).y >= 0 /\ CellOf(c).y + CellOf(c).cy <= 6858000
    /\ \A c, d \in 0..3 :
           c # d => \/ CellOf(c).x + CellOf(c).cx <= CellOf(d).x
                    \/ CellOf(d).x + CellOf(d).cx <= CellOf(c).x
                    \/ CellOf(c).y + CellOf(c).cy <= CellOf(d).y
                    \/ CellOf(d).y + CellOf(d).cy <= CellOf(c).y

\* what the claim says of an archive written for the images
ArchiveByClaim(archive, image_data) ==
    /\ Cardinality(PartsOf(archive, "ppt/slides")) = (Len(image_data) + 3) \div 4
    /\ {archive[j].num : j \in PartsOf(archive, "ppt/slides")}
           = 1..((Len(image_data) + 3) \div 4)
    /\ Cardinality(PartsOf(archive, "ppt/media")) = Len(image_data)
    /\ \A k \in 1..Len(image_data) : ImagePlaced(archive, image_data, k)
    /\ TargetsWritten(archive)

\* C30: when generate_ppt_from_bytes returns Ok for n images, the archive
\* has ceil(n / 4) slides, numbered from 1; image k is the media part k and
\* exactly one relationship of one slide targets it, on slide ceil(k / 4),
\* with id rId((k - 1) mod 4 + 2), embedded by one picture whose rectangle
\* is the cell (k - 1) mod 4 of the grid; every image target of a
\* relationship is a media part of the archive; the four cells lie within
\* the slide of SLIDE_WIDTH x SLIDE_HEIGHT = 9144000 x 6858000 EMU and do
\* not overlap.
C30_PptLayout ==
    /\ GridOnSlide
    /\ SLIDE_WIDTH = 9144000 /\ SLIDE_HEIGHT = 6858000
    /\ \A k \in 1..Len(fn_ret) :
           fn_ret[k].ret.ok => ArchiveByClaim(fn_ret[k].ret.archive, fn_args.image_data)

\* nine images were written on three slides, the last holding one image
C30_Witness ==
    /\ Len(fn_args.image_data) = 9
    /\ Len(fn_ret) = 1
    /\ fn_ret[1].ret.ok
    /\ Cardinality(PartsOf(fn_ret[1].ret.archive, "ppt/slides")) = 3

====
